---- MODULE Spec2Model ----
(***************************************************************************)
(* A state-machine model of madsim-parody: the simulation driver (Sim),   *)
(* the nodes with their cooperative runtime, time driver and free-port    *)
(* pool, the shared virtual network (socket registry, topology, event     *)
(* heap, RNG) and the UDP sockets the tasks use.                           *)
(*                                                                         *)
(* Conventions.  IP addresses are small integers (a node's IP is 1, 2,    *)
(* ...); a socket address is the pair <<ip, port>>.  Option<T> is a       *)
(* sequence: <<>> is None and <<x>> is Some(x).  Logical time counts      *)
(* units of 100 ms.  A HashMap or HashSet is a function or a set.         *)
(***************************************************************************)
EXTENDS Integers, Sequences, FiniteSets, TLC

VARIABLES
    nodes,      \* Sim.nodes: IP -> NodeState (runtime, time driver, free ports)
    network,    \* NetworkState: registry, rng, events, topology
    sockets,    \* the live UpdSocketData allocations, by allocation id
    sent,       \* history: one record per send_upd_packet call
    recvLog,    \* history: one record per completed recv_from
    lastBind,   \* history: what the latest UdpSocket::bind call did
    lastDrop,   \* history: what the latest drop of a UdpSocket did
    binds,      \* history: the number of sockets bound so far
    panicked,   \* a panic! / failed assert! was hit: the program is gone
    driver,     \* where the caller of Sim::make_steps is in its loops
    spawned,    \* the number of NodeHandle::spawn calls made by the caller
    high_id,    \* the highest task address handed out so far
    stream,     \* the values StdRng has produced so far for this seed
    twin,       \* a second run of the same program on the same seed
    topoLog,    \* history: the latest two calls made on the bare topology
    sendLog,    \* history: one record per UdpSocket::send_to call
    sleepLog,   \* history: one record per sleep call
    chans,      \* the oneshot channels of the JoinHandles that were kept
    joinLog,    \* history: one record per JoinHandle that completed
    stepLog,    \* history: the latest next_step call that was watched
    buffer,     \* a datagram Buffer on its own, as the tests of datagram.rs use it
    current,    \* NODE_HANDLE: the node NodeHandle::current() resolves to
    ctxLog      \* history: one record per sim::now() call of a task

vars == <<nodes, network, sockets, sent, recvLog, lastBind, lastDrop, binds, panicked,
          driver, spawned, high_id, stream, twin, topoLog, sendLog, sleepLog,
          chans, joinLog, stepLog, buffer, current, ctxLog>>

\* The variables of the simulation, which a call on the lone buffer leaves.
simVars == <<nodes, network, sockets, sent, recvLog, lastBind, lastDrop, binds,
             panicked, driver, spawned, high_id, stream, twin, topoLog, sendLog,
             sleepLog, chans, joinLog, current, ctxLog>>

----------------------------------------------------------------------------
(* Bounds of the exploration. *)

MaxTopoIP == 3      \* IPs 1..MaxTopoIP are used on the bare topology
MaxNodeIP == 2      \* IPs 1..MaxNodeIP can become nodes of the simulation
MaxSpawns == 3      \* tasks spawned by the caller over a run
MaxSends == 2       \* send_upd_packet calls over a run
MaxWaiters == 2     \* wakers one socket keeps in recv_waiters
MaxSimSteps == 4    \* steps one Sim::make_steps call is followed for
MaxTimeSpawns == 2  \* tasks spawned over a run of the sleeping tasks
MaxTime == 3        \* latest time a step_duration call is asked to reach
MaxDuration == 2    \* longest duration given to step_duration
MaxPayload == 3     \* longest payload offered to the lone buffer
MaxBuffered == 3    \* datagrams the lone buffer is filled with
RngMod == 2         \* resolution of one value of the RNG stream

(* Program constants, scaled. *)

U16Max == 2                 \* u16::MAX: ports are 1..=U16Max
DEFAULT_MIN_DELAY == 1      \* 100 ms
DEFAULT_MAX_DELAY == 5      \* 500 ms
DropRatePct == 5            \* DEFAULT_DROP_RATE = 0.05, in percent
UDP_RECV_BUF_SIZE == 3      \* 4096 bytes, scaled
UDP_SEND_BUF_SIZE == 2      \* 4096 bytes, scaled

UNSPECIFIED == 0            \* 0.0.0.0
LOOPBACK == 127             \* 127.0.0.1
MULTICAST == 224            \* 224.x.x.x

TopoIPs == 1..MaxTopoIP
NodeIPs == 1..MaxNodeIP
Ports == 1..U16Max

None == <<>>
Some(x) == <<x>>

EmptyMap == [x \in {} |-> x]
Put(f, k, v) == [x \in (DOMAIN f) \cup {k} |-> IF x = k THEN v ELSE f[x]]
Del(f, k) == [x \in (DOMAIN f) \ {k} |-> f[x]]

Min(S) == CHOOSE x \in S : \A y \in S : x <= y
Max(S) == CHOOSE x \in S : \A y \in S : x >= y

RECURSIVE SortedSeq(_)
SortedSeq(S) == IF S = {} THEN <<>> ELSE <<Min(S)>> \o SortedSeq(S \ {Min(S)})

----------------------------------------------------------------------------
(* NetworkTopology (sim/net/topology.rs). *)

NewTopology == [links |-> {}, nodes |-> {}]

RegisterNode(t, addr) ==
    LET ns == t.nodes \cup {addr}
    IN  [nodes |-> ns,
         links |-> t.links \cup {<<addr, o>> : o \in ns}
                           \cup {<<o, addr>> : o \in ns}]

\* The members of the group are visited in sorted order; the first one that
\* is not registered panics, after the earlier ones were cut off.
SeparatePanics(t, group) == \E s \in group : s \notin t.nodes

SeparateVisited(t, group) ==
    {s \in group : \A u \in group : u \notin t.nodes => s < u}

\* separate that cuts the members of the group off from each other too.
SeparateIsolates(t, group) ==
    LET cut == {p \in SeparateVisited(t, group) \X t.nodes : p[1] /= p[2]}
    IN  [t EXCEPT !.links = @ \ (cut \cup {<<p[2], p[1]>> : p \in cut})]

\* separate that removes the link out of the group and leaves the one back.
SeparateOneWay(t, group) ==
    LET cut == {<<s, o>> : s \in SeparateVisited(t, group), o \in t.nodes \ group}
    IN  [t EXCEPT !.links = @ \ cut]

Separate(t, group) ==
    LET cut == {<<s, o>> : s \in SeparateVisited(t, group), o \in t.nodes \ group}
    IN  [t EXCEPT !.links = @ \ (cut \cup {<<p[2], p[1]>> : p \in cut})]

\* repair that also links the group to every registered node.
RepairReconnects(t, group) ==
    [t EXCEPT !.links = @ \cup (group \X group) \cup (group \X t.nodes)
                          \cup (t.nodes \X group)]

Repair(t, group) == [t EXCEPT !.links = @ \cup (group \X group)]

\* repair_all that inserts (a, b) for a <= b only.
RepairAllOneWay(t) ==
    [t EXCEPT !.links = @ \cup {p \in t.nodes \X t.nodes : p[1] <= p[2]}]

RepairAll(t) == [t EXCEPT !.links = @ \cup (t.nodes \X t.nodes)]

NodeRegistered(t, addr) == addr \in t.nodes

\* hops that does not ask whether the two nodes are registered.
HopsUnchecked(t, from, to) ==
    IF from = to THEN Some(0)
    ELSE IF <<from, to>> \in t.links THEN Some(1)
    ELSE None

HopsNoSelf(t, from, to) ==
    IF ~NodeRegistered(t, from) \/ ~NodeRegistered(t, to) THEN None
    ELSE IF <<from, to>> \in t.links THEN Some(1)
    ELSE None

Hops(t, from, to) ==
    IF ~NodeRegistered(t, from) \/ ~NodeRegistered(t, to) THEN None
    ELSE IF from = to THEN Some(0)
    ELSE IF <<from, to>> \in t.links THEN Some(1)
    ELSE None

----------------------------------------------------------------------------
(* std BinaryHeap over entries with a `timestamp`, ordered by the reversed *)
(* timestamp (Ord for NetworkEvent and for TimerEntry): the greatest       *)
(* element is the one with the earliest timestamp.  a <= b in that order   *)
(* is a.timestamp >= b.timestamp.  Positions are 1-based here.             *)

Swap(h, i, j) == [h EXCEPT ![i] = h[j], ![j] = h[i]]

RECURSIVE SiftUp(_, _, _)
SiftUp(h, start, pos) ==
    IF pos > start /\ h[pos].timestamp < h[pos \div 2].timestamp
    THEN SiftUp(Swap(h, pos, pos \div 2), start, pos \div 2)
    ELSE h

RECURSIVE SiftDownToBottom(_, _, _)
SiftDownToBottom(h, start, pos) ==
    LET child == 2 * pos
    IN  IF child + 1 <= Len(h)
        THEN LET c == IF h[child].timestamp >= h[child + 1].timestamp
                      THEN child + 1 ELSE child
             IN  SiftDownToBottom(Swap(h, pos, c), start, c)
        ELSE IF child = Len(h)
        THEN SiftUp(Swap(h, pos, child), start, child)
        ELSE SiftUp(h, start, pos)

HeapPush(h, e) == SiftUp(Append(h, e), 1, Len(h) + 1)

HeapPeek(h) == IF h = <<>> THEN None ELSE Some(h[1])

\* Defined for a non-empty heap: the popped item and the heap left.
HeapPop(h) ==
    LET last == h[Len(h)]
        rest == SubSeq(h, 1, Len(h) - 1)
    IN  IF rest = <<>> THEN [item |-> last, heap |-> <<>>]
        ELSE [item |-> h[1],
              heap |-> SiftDownToBottom([rest EXCEPT ![1] = last], 1, 1)]

----------------------------------------------------------------------------
(* Node state (sim/node.rs), runtime state (sim/runtime/state.rs) and time *)
(* driver (sim/time.rs).  A waker is <<node ip, task id>>.                 *)

NewNodeState(ip) ==
    [info |-> [ip |-> ip,
               udp_send_buffer_size |-> UDP_SEND_BUF_SIZE,
               udp_recv_buffer_size |-> UDP_RECV_BUF_SIZE],
     time |-> 0,
     heap |-> <<>>,
     task_queue |-> <<>>,
     tasks |-> EmptyMap,
     free_ports |-> Ports]

\* take_task that gives up at the first id without a task.
TakeTaskNoSkip(node) ==
    IF node.task_queue = <<>> THEN [found |-> FALSE, id |-> 0, node |-> node]
    ELSE IF Head(node.task_queue) \in DOMAIN node.tasks
    THEN [found |-> TRUE, id |-> Head(node.task_queue),
          node |-> [node EXCEPT !.task_queue = Tail(@),
                                !.tasks = Del(@, Head(node.task_queue))]]
    ELSE [found |-> FALSE, id |-> 0, node |-> [node EXCEPT !.task_queue = Tail(@)]]

\* State::take_task: pop ids until one names a task of the map.
RECURSIVE TakeTask(_)
TakeTask(node) ==
    IF node.task_queue = <<>> THEN [found |-> FALSE, id |-> 0, node |-> node]
    ELSE LET id == Head(node.task_queue)
             rest == [node EXCEPT !.task_queue = Tail(@)]
         IN  IF id \in DOMAIN node.tasks
             THEN [found |-> TRUE, id |-> id,
                   node |-> [rest EXCEPT !.tasks = Del(@, id)]]
             ELSE TakeTask(rest)

\* push_task that puts the id at the front of the queue.
PushTaskFront(node, id) == [node EXCEPT !.task_queue = <<id>> \o @]

\* State::push_task.
PushTask(node, id) == [node EXCEPT !.task_queue = Append(@, id)]

\* RuntimeState::add_task.  runtime.rs uses state::RuntimeState (with
\* queue_size), which the sources at hand do not define: runtime/state.rs
\* holds an earlier `State` without it.  As the runtime is specified, and as
\* runtime/tests.rs counts steps (tasks_reordering: 4), add_task puts the
\* task into the map and leaves the queue alone; submit and the wakers push.
AddTask(node, id, task) == [node EXCEPT !.tasks = Put(@, id, task)]

HasWork(node) == Len(node.task_queue) > 0

\* The number of times id stands in the queue q.
Occurrences(q, id) == Cardinality({k \in DOMAIN q : q[k] = id})

\* Waker::wake_by_ref: push the id onto the queue of the waker's runtime.
Wake(w, waker) ==
    IF waker[1] \in DOMAIN w.nodes
    THEN [w EXCEPT !.nodes[waker[1]] = PushTask(@, waker[2])]
    ELSE w

RECURSIVE WakeAll(_, _)
WakeAll(w, wakers) ==
    IF wakers = <<>> THEN w ELSE WakeAll(Wake(w, Head(wakers)), Tail(wakers))

AddTimer(node, timestamp, waker) ==
    [node EXCEPT !.heap = HeapPush(@, [timestamp |-> timestamp, waker |-> waker])]

NextTimer(node) == HeapPeek(node.heap)

\* TimeDriver::advance_to_next_timer, for a non-empty heap whose pop is p.
AdvanceToPopped(w, n, p) ==
    Wake([w EXCEPT !.nodes[n].heap = p.heap, !.nodes[n].time = p.item.timestamp],
         p.item.waker)

AdvanceToNextTimer(w, n) == AdvanceToPopped(w, n, HeapPop(w.nodes[n].heap))

\* The loop of advance_to_time with timestamp < to for timestamp <= to.
RECURSIVE FireTimersStrict(_, _, _)
FireTimersStrict(w, n, to) ==
    IF w.nodes[n].heap /= <<>> /\ w.nodes[n].heap[1].timestamp < to
    THEN FireTimersStrict(AdvanceToNextTimer(w, n), n, to)
    ELSE w

\* The loop of TimeDriver::advance_to_time.
RECURSIVE FireTimers(_, _, _)
FireTimers(w, n, to) ==
    IF w.nodes[n].heap /= <<>> /\ w.nodes[n].heap[1].timestamp <= to
    THEN FireTimers(AdvanceToNextTimer(w, n), n, to)
    ELSE w

\* TimeDriver::advance_to_time: assert!(time <= to), fire, set the clock.
TimeAdvanceToTime(w, n, to) ==
    IF w.nodes[n].time > to THEN [w EXCEPT !.panicked = TRUE]
    ELSE [FireTimers(w, n, to) EXCEPT !.nodes[n].time = to]

----------------------------------------------------------------------------
(* Datagram buffer (sim/net/datagram.rs).                                  *)

BufferWithCapacity(capacity) == [capacity |-> capacity, len |-> 0, buf |-> <<>>]

AddDatagramFits(b, dgram) == Len(dgram.data) + b.len <= b.capacity

\* add_datagram without the capacity check.
AddDatagramUnchecked(b, dgram) ==
    [b EXCEPT !.len = @ + Len(dgram.data), !.buf = Append(@, dgram)]

AddDatagram(b, dgram) ==
    IF AddDatagramFits(b, dgram)
    THEN [b EXCEPT !.len = @ + Len(dgram.data), !.buf = Append(@, dgram)]
    ELSE b

\* take_datagram that pops the back of the queue.
TakeDatagramNewest(b) ==
    [b EXCEPT !.len = @ - Len(b.buf[Len(b.buf)].data),
              !.buf = SubSeq(@, 1, Len(@) - 1)]

\* Buffer::take_datagram, for a non-empty buffer.
TakeDatagram(b) ==
    [b EXCEPT !.len = @ - Len(Head(b.buf).data), !.buf = Tail(@)]

\* Buffer::take_datagram on any buffer: the Option returned and the buffer.
TakeDatagramRet(b) ==
    IF b.buf = <<>> THEN [ret |-> None, b |-> b]
    ELSE [ret |-> Some(Head(b.buf)), b |-> TakeDatagram(b)]

----------------------------------------------------------------------------
(* The network (sim/net.rs).  The registry maps a socket address to the    *)
(* allocation id of the socket data it holds a Weak to; the Weak upgrades  *)
(* while the allocation is in `sockets`.  `rnd` is the RNG stream of the   *)
(* seed; network.rng counts the values taken from it.                      *)

NewNetworkState == [registry |-> EmptyMap, rng |-> 0, events |-> <<>>,
                    topology |-> NewTopology]

IsMulticast(ip) == ip = MULTICAST
IsUnspecified(ip) == ip = UNSPECIFIED
IsLoopback(ip) == ip = LOOPBACK

\* rng.gen_range(0.0..1.0) < drop_rate, on a raw value of 0..RngMod-1.
BelowDropRate(raw) == raw * 100 < DropRatePct * RngMod

\* UniformDuration::new(min_delay, max_delay).sample(rng): min <= d < max.
SampleDelay(raw) == DEFAULT_MIN_DELAY + (raw % (DEFAULT_MAX_DELAY - DEFAULT_MIN_DELAY))

Upgrades(w, addr) ==
    addr \in DOMAIN w.network.registry /\ w.network.registry[addr] \in DOMAIN w.sockets

\* History of one send_upd_packet call: its arguments, which socket the
\* sender was (`from_serial`: the how-manieth bound), the branch that
\* returned (`cause`), the RNG values it took (`draws`), whether a live
\* socket was registered under `to` (`to_live`) and, filled in by
\* handle_event, what became of the event (`fate`, `awaited`) and as the
\* how-manieth event it was handled (`order`), whether the receiver's
\* address had a live socket then (`live_at`) and whether the topology had
\* no link from sender to receiver then (`cut_at`).
LogSend(w, from, to, packet, now, cause, timestamp, draws) ==
    [w EXCEPT !.sent = Append(@,
        [from |-> from, to |-> to, data |-> packet, now |-> now,
         hops |-> Hops(w.network.topology, from[1], to[1]),
         dropped |-> cause /= "scheduled", cause |-> cause,
         timestamp |-> timestamp, draws |-> draws,
         from_serial |-> IF Upgrades(w, from)
                         THEN w.sockets[w.network.registry[from]].serial ELSE 0,
         to_live |-> Upgrades(w, to),
         fate |-> "none", awaited |-> FALSE, order |-> 0,
         live_at |-> FALSE, cut_at |-> FALSE])]

\* The number of events handle_event has been called with.
Handled(w) == Cardinality({i \in DOMAIN w.sent : w.sent[i].fate /= "none"})

\* send_upd_packet without the `let Some(hops) = hops else` return.
SendUdpPacketNoHopsCheck(w, from, to, packet, now, rnd) ==
    IF from \notin DOMAIN w.network.registry THEN [w EXCEPT !.panicked = TRUE]
    ELSE IF ~Upgrades(w, from) \/ ~Upgrades(w, to)
    THEN LogSend(w, from, to, packet, now, "dead", None, 0)
    ELSE
    LET from_socket == w.sockets[w.network.registry[from]]
        to_socket == w.sockets[w.network.registry[to]]
        sampled == to_socket.local_addr /= from_socket.local_addr
        rng1 == IF sampled THEN w.network.rng + 1 ELSE w.network.rng
        w1 == [w EXCEPT !.network.rng = rng1]
        hops == Hops(w.network.topology, from_socket.local_addr[1],
                     to_socket.local_addr[1])
    IN  IF sampled /\ BelowDropRate(rnd[rng1])
        THEN LogSend(w1, from, to, packet, now, "rate", None, rng1 - w.network.rng)
        ELSE
        LET delay == SampleDelay(rnd[rng1 + 1]) * (IF hops = None THEN 1 ELSE hops[1])
            event == [timestamp |-> now + delay,
                      sender |-> from_socket.local_addr,
                      receiver |-> to_socket.local_addr,
                      data |-> packet,
                      uid |-> Len(w.sent) + 1]
            w2 == LogSend(w1, from, to, packet, now, "scheduled",
                          Some(now + delay), rng1 + 1 - w.network.rng)
        IN  [w2 EXCEPT !.network.rng = rng1 + 1,
                       !.network.events = HeapPush(@, event)]

\* send_upd_packet with the drop sample taken for every packet.
SendUdpPacketAlwaysSampled(w, from, to, packet, now, rnd) ==
    IF from \notin DOMAIN w.network.registry THEN [w EXCEPT !.panicked = TRUE]
    ELSE IF ~Upgrades(w, from) \/ ~Upgrades(w, to)
    THEN LogSend(w, from, to, packet, now, "dead", None, 0)
    ELSE
    LET from_socket == w.sockets[w.network.registry[from]]
        to_socket == w.sockets[w.network.registry[to]]
        sampled == TRUE
        rng1 == IF sampled THEN w.network.rng + 1 ELSE w.network.rng
        w1 == [w EXCEPT !.network.rng = rng1]
        hops == Hops(w.network.topology, from_socket.local_addr[1],
                     to_socket.local_addr[1])
    IN  IF sampled /\ BelowDropRate(rnd[rng1])
        THEN LogSend(w1, from, to, packet, now, "rate", None, rng1 - w.network.rng)
        ELSE IF hops = None
        THEN LogSend(w1, from, to, packet, now, "hops", None, rng1 - w.network.rng)
        ELSE
        LET delay == SampleDelay(rnd[rng1 + 1]) * hops[1]
            event == [timestamp |-> now + delay,
                      sender |-> from_socket.local_addr,
                      receiver |-> to_socket.local_addr,
                      data |-> packet,
                      uid |-> Len(w.sent) + 1]
            w2 == LogSend(w1, from, to, packet, now, "scheduled",
                          Some(now + delay), rng1 + 1 - w.network.rng)
        IN  [w2 EXCEPT !.network.rng = rng1 + 1,
                       !.network.events = HeapPush(@, event)]

\* send_upd_packet that schedules a packet for an address without a socket.
SendUdpPacketToAbsent(w, from, to, packet, now, rnd) ==
    IF from \notin DOMAIN w.network.registry THEN [w EXCEPT !.panicked = TRUE]
    ELSE IF ~Upgrades(w, from)
    THEN LogSend(w, from, to, packet, now, "dead", None, 0)
    ELSE IF ~Upgrades(w, to)
    THEN [LogSend(w, from, to, packet, now, "scheduled",
                  Some(now + DEFAULT_MIN_DELAY), 0)
            EXCEPT !.network.events = HeapPush(@,
                [timestamp |-> now + DEFAULT_MIN_DELAY, sender |-> from,
                 receiver |-> to, data |-> packet, uid |-> Len(w.sent) + 1])]
    ELSE
    LET from_socket == w.sockets[w.network.registry[from]]
        to_socket == w.sockets[w.network.registry[to]]
        sampled == to_socket.local_addr /= from_socket.local_addr
        rng1 == IF sampled THEN w.network.rng + 1 ELSE w.network.rng
        w1 == [w EXCEPT !.network.rng = rng1]
        hops == Hops(w.network.topology, from_socket.local_addr[1],
                     to_socket.local_addr[1])
    IN  IF sampled /\ BelowDropRate(rnd[rng1])
        THEN LogSend(w1, from, to, packet, now, "rate", None, rng1 - w.network.rng)
        ELSE IF hops = None
        THEN LogSend(w1, from, to, packet, now, "hops", None, rng1 - w.network.rng)
        ELSE
        LET delay == SampleDelay(rnd[rng1 + 1]) * hops[1]
            event == [timestamp |-> now + delay,
                      sender |-> from_socket.local_addr,
                      receiver |-> to_socket.local_addr,
                      data |-> packet,
                      uid |-> Len(w.sent) + 1]
            w2 == LogSend(w1, from, to, packet, now, "scheduled",
                          Some(now + delay), rng1 + 1 - w.network.rng)
        IN  [w2 EXCEPT !.network.rng = rng1 + 1,
                       !.network.events = HeapPush(@, event)]

\* NetworkHandle::send_upd_packet; `now` is now() of the current node.  The
\* returned flag (dropped) is the `dropped` field of the last `sent` record.
SendUdpPacket(w, from, to, packet, now, rnd) ==
    IF from \notin DOMAIN w.network.registry THEN [w EXCEPT !.panicked = TRUE]
    ELSE IF ~Upgrades(w, from) \/ ~Upgrades(w, to)
    THEN LogSend(w, from, to, packet, now, "dead", None, 0)
    ELSE
    LET from_socket == w.sockets[w.network.registry[from]]
        to_socket == w.sockets[w.network.registry[to]]
        sampled == to_socket.local_addr /= from_socket.local_addr
        rng1 == IF sampled THEN w.network.rng + 1 ELSE w.network.rng
        w1 == [w EXCEPT !.network.rng = rng1]
        hops == Hops(w.network.topology, from_socket.local_addr[1],
                     to_socket.local_addr[1])
    IN  IF sampled /\ BelowDropRate(rnd[rng1])
        THEN LogSend(w1, from, to, packet, now, "rate", None, rng1 - w.network.rng)
        ELSE IF hops = None
        THEN LogSend(w1, from, to, packet, now, "hops", None, rng1 - w.network.rng)
        ELSE
        LET delay == SampleDelay(rnd[rng1 + 1]) * hops[1]
            event == [timestamp |-> now + delay,
                      sender |-> from_socket.local_addr,
                      receiver |-> to_socket.local_addr,
                      data |-> packet,
                      uid |-> Len(w.sent) + 1]
            w2 == LogSend(w1, from, to, packet, now, "scheduled",
                          Some(now + delay), rng1 + 1 - w.network.rng)
        IN  [w2 EXCEPT !.network.rng = rng1 + 1,
                       !.network.events = HeapPush(@, event)]

\* handle_event that leaves the recv_waiters asleep.
HandleEventNoWake(w, event) ==
    IF ~Upgrades(w, event.receiver)
    THEN [w EXCEPT !.sent[event.uid].fate = "dead",
                   !.sent[event.uid].order = Handled(w) + 1,
                   !.sent[event.uid].live_at = Upgrades(w, event.receiver),
                   !.sent[event.uid].cut_at =
                       Hops(w.network.topology, event.sender[1],
                            event.receiver[1]) = None]
    ELSE
    LET id == w.network.registry[event.receiver]
        s == w.sockets[id]
        dgram == [from |-> event.sender, to |-> event.receiver,
                  data |-> event.data, uid |-> event.uid]
        fits == AddDatagramFits(s.recv_buf, dgram)
        w1 == [w EXCEPT !.sockets[id].recv_buf = AddDatagram(@, dgram),
                        !.sockets[id].recv_waiters = <<>>,
                        !.sent[event.uid].fate =
                            IF fits THEN "buffered" ELSE "overflow",
                        !.sent[event.uid].awaited =
                            s.recv_waiters /= <<>> /\ s.recv_buf.buf = <<>>,
                        !.sent[event.uid].order = Handled(w) + 1,
                   !.sent[event.uid].live_at = Upgrades(w, event.receiver),
                   !.sent[event.uid].cut_at =
                       Hops(w.network.topology, event.sender[1],
                            event.receiver[1]) = None]
    IN  w1

\* handle_event that wakes the recv_waiters only of a datagram it stored.
HandleEventWakesIfStored(w, event) ==
    IF ~Upgrades(w, event.receiver)
    THEN [w EXCEPT !.sent[event.uid].fate = "dead",
                   !.sent[event.uid].order = Handled(w) + 1,
                   !.sent[event.uid].live_at = Upgrades(w, event.receiver),
                   !.sent[event.uid].cut_at =
                       Hops(w.network.topology, event.sender[1],
                            event.receiver[1]) = None]
    ELSE
    LET id == w.network.registry[event.receiver]
        s == w.sockets[id]
        dgram == [from |-> event.sender, to |-> event.receiver,
                  data |-> event.data, uid |-> event.uid]
        fits == AddDatagramFits(s.recv_buf, dgram)
        w1 == [w EXCEPT !.sockets[id].recv_buf = AddDatagram(@, dgram),
                        !.sockets[id].recv_waiters = IF fits THEN <<>> ELSE @,
                        !.sent[event.uid].fate =
                            IF fits THEN "buffered" ELSE "overflow",
                        !.sent[event.uid].awaited =
                            s.recv_waiters /= <<>> /\ s.recv_buf.buf = <<>>,
                        !.sent[event.uid].order = Handled(w) + 1,
                   !.sent[event.uid].live_at = Upgrades(w, event.receiver),
                   !.sent[event.uid].cut_at =
                       Hops(w.network.topology, event.sender[1],
                            event.receiver[1]) = None]
    IN  IF fits THEN WakeAll(w1, s.recv_waiters) ELSE w1

\* handle_event that looks for a route once more before it delivers.
HandleEventChecksRoute(w, event) ==
    IF \/ ~Upgrades(w, event.receiver)
       \/ Hops(w.network.topology, event.sender[1], event.receiver[1]) = None
    THEN [w EXCEPT !.sent[event.uid].fate = "dead",
                   !.sent[event.uid].order = Handled(w) + 1,
                   !.sent[event.uid].live_at = Upgrades(w, event.receiver),
                   !.sent[event.uid].cut_at =
                       Hops(w.network.topology, event.sender[1],
                            event.receiver[1]) = None]
    ELSE
    LET id == w.network.registry[event.receiver]
        s == w.sockets[id]
        dgram == [from |-> event.sender, to |-> event.receiver,
                  data |-> event.data, uid |-> event.uid]
        fits == AddDatagramFits(s.recv_buf, dgram)
        w1 == [w EXCEPT !.sockets[id].recv_buf = AddDatagram(@, dgram),
                        !.sockets[id].recv_waiters = <<>>,
                        !.sent[event.uid].fate =
                            IF fits THEN "buffered" ELSE "overflow",
                        !.sent[event.uid].awaited =
                            s.recv_waiters /= <<>> /\ s.recv_buf.buf = <<>>,
                        !.sent[event.uid].order = Handled(w) + 1,
                   !.sent[event.uid].live_at = Upgrades(w, event.receiver),
                   !.sent[event.uid].cut_at =
                       Hops(w.network.topology, event.sender[1],
                            event.receiver[1]) = None]
    IN  WakeAll(w1, s.recv_waiters)

\* NetworkHandle::handle_event.
HandleEvent(w, event) ==
    IF ~Upgrades(w, event.receiver)
    THEN [w EXCEPT !.sent[event.uid].fate = "dead",
                   !.sent[event.uid].order = Handled(w) + 1,
                   !.sent[event.uid].live_at = Upgrades(w, event.receiver),
                   !.sent[event.uid].cut_at =
                       Hops(w.network.topology, event.sender[1],
                            event.receiver[1]) = None]
    ELSE
    LET id == w.network.registry[event.receiver]
        s == w.sockets[id]
        dgram == [from |-> event.sender, to |-> event.receiver,
                  data |-> event.data, uid |-> event.uid]
        fits == AddDatagramFits(s.recv_buf, dgram)
        w1 == [w EXCEPT !.sockets[id].recv_buf = AddDatagram(@, dgram),
                        !.sockets[id].recv_waiters = <<>>,
                        !.sent[event.uid].fate =
                            IF fits THEN "buffered" ELSE "overflow",
                        !.sent[event.uid].awaited =
                            s.recv_waiters /= <<>> /\ s.recv_buf.buf = <<>>,
                        !.sent[event.uid].order = Handled(w) + 1,
                   !.sent[event.uid].live_at = Upgrades(w, event.receiver),
                   !.sent[event.uid].cut_at =
                       Hops(w.network.topology, event.sender[1],
                            event.receiver[1]) = None]
    IN  WakeAll(w1, s.recv_waiters)

NextNetworkEvent(w) ==
    IF w.network.events = <<>> THEN None
    ELSE Some(w.network.events[1].timestamp)

\* The body of advance_to_time's loop, for the popped event.
HandlePopped(w, p) == HandleEvent([w EXCEPT !.network.events = p.heap], p.item)

\* advance_to_time that stops at `time >= timestamp`.
RECURSIVE NetAdvanceToTimeStrict(_, _)
NetAdvanceToTimeStrict(w, timestamp) ==
    IF w.network.events = <<>> \/ w.network.events[1].timestamp >= timestamp
    THEN w
    ELSE NetAdvanceToTimeStrict(HandlePopped(w, HeapPop(w.network.events)), timestamp)

\* NetworkHandle::advance_to_time.
RECURSIVE NetAdvanceToTime(_, _)
NetAdvanceToTime(w, timestamp) ==
    IF w.network.events = <<>> \/ w.network.events[1].timestamp > timestamp
    THEN w
    ELSE NetAdvanceToTime(HandlePopped(w, HeapPop(w.network.events)), timestamp)

----------------------------------------------------------------------------
(* UdpSocket (sim/net/udp.rs) and the node's ports (sim/node.rs).          *)

\* NodeHandle::take_port: the port taken (an Option) and the set left.
TakePort(free_ports, port) ==
    IF port /= None
    THEN IF port[1] \in free_ports
         THEN [port |-> port, free_ports |-> free_ports \ {port[1]}]
         ELSE [port |-> None, free_ports |-> free_ports]
    ELSE IF free_ports /= {}
         THEN [port |-> Some(Min(free_ports)),
               free_ports |-> free_ports \ {Min(free_ports)}]
         ELSE [port |-> None, free_ports |-> free_ports]

\* NodeHandle::return_port: the insert must find the port absent.
ReturnPort(w, n, port) ==
    IF port \in w.nodes[n].free_ports THEN [w EXCEPT !.panicked = TRUE]
    ELSE [w EXCEPT !.nodes[n].free_ports = @ \cup {port}]

NewSocketId(w) == Min({i \in 1..(Cardinality(DOMAIN w.sockets) + 1) :
                          i \notin DOMAIN w.sockets})

\* register_upd_socket that overwrites the entry.
RegisterAlways(w, addr) == TRUE

\* NetworkHandle::register_upd_socket succeeds on a vacant entry.
RegisterVacant(w, addr) == addr \notin DOMAIN w.network.registry

\* UdpSocket::bind on node n over the candidate addresses, in order.
\* Result: the world, and the allocation id of the bound socket (0: Err).
RECURSIVE Bind(_, _, _)

\* One candidate, with its IP rewritten and take_port's answer `taken`.
BindCandidate(w, n, addrs, ip, taken, id) ==
    IF taken.port = None THEN Bind(w, n, Tail(addrs))
    ELSE IF RegisterVacant(w, <<ip, taken.port[1]>>)
    THEN [w |-> [w EXCEPT
                   !.nodes[n].free_ports = taken.free_ports,
                   !.network.registry = Put(@, <<ip, taken.port[1]>>, id),
                   !.binds = @ + 1,
                   !.sockets = Put(@, id,
                       [recv_buf |-> BufferWithCapacity(
                            w.nodes[n].info.udp_recv_buffer_size),
                        recv_waiters |-> <<>>,
                        local_addr |-> <<ip, taken.port[1]>>,
                        owner_node |-> n,
                        serial |-> w.binds + 1])],
          sock |-> id]
    ELSE \* the port taken is not given back
         Bind([w EXCEPT !.nodes[n].free_ports = taken.free_ports], n, Tail(addrs))

Bind(w, n, addrs) ==
    IF addrs = <<>> THEN [w |-> w, sock |-> 0]
    ELSE IF IsMulticast(Head(addrs)[1]) THEN Bind(w, n, Tail(addrs))
    ELSE BindCandidate(w, n, addrs,
            IF IsUnspecified(Head(addrs)[1]) \/ IsLoopback(Head(addrs)[1])
            THEN n ELSE Head(addrs)[1],
            TakePort(w.nodes[n].free_ports,
                     IF Head(addrs)[2] = 0 THEN None ELSE Some(Head(addrs)[2])),
            NewSocketId(w))

\* Drop that returns the port and leaves the registry entry.
DropSocketKeepsEntry(w, id) ==
    LET s == w.sockets[id]
        w1 == ReturnPort(w, s.owner_node, s.local_addr[2])
    IN  IF w1.panicked THEN w1
        ELSE IF s.local_addr \notin DOMAIN w1.network.registry
        THEN [w1 EXCEPT !.panicked = TRUE]
        ELSE [w1 EXCEPT !.sockets = Del(@, id),
                        !.lastDrop = Some([addr |-> s.local_addr,
                                           owner |-> s.owner_node])]

\* Drop for UdpSocket (owner node and network alive).
DropSocket(w, id) ==
    LET s == w.sockets[id]
        w1 == ReturnPort(w, s.owner_node, s.local_addr[2])
    IN  IF w1.panicked THEN w1
        ELSE IF s.local_addr \notin DOMAIN w1.network.registry
        THEN [w1 EXCEPT !.panicked = TRUE]
        ELSE [w1 EXCEPT !.network.registry = Del(@, s.local_addr),
                        !.sockets = Del(@, id),
                        !.lastDrop = Some([addr |-> s.local_addr,
                                           owner |-> s.owner_node])]

\* What UdpSocket::send_to returns: Ok(len) as <<len>>, or the error kind.
SendToResult(w, id, buf, target) ==
    IF IsMulticast(target[1]) \/ IsUnspecified(target[1]) THEN "InvalidInput"
    ELSE Some(Min({w.nodes[w.sockets[id].owner_node].info.udp_send_buffer_size,
                   Len(buf)}))

\* send_to without the check of the destination IP.
SendToUnchecked(w, cur, id, buf, target, rnd) ==
    LET s == w.sockets[id]
        to == IF IsLoopback(target[1])
              THEN <<s.owner_node, target[2]>> ELSE target
        size == w.nodes[s.owner_node].info.udp_send_buffer_size
        cut == SubSeq(buf, 1, Min({size, Len(buf)}))
    IN  SendUdpPacket(w, s.local_addr, to, cut, w.nodes[cur].time, rnd)

\* send_to that hands the whole of buf to the network.
SendToWholeBuf(w, cur, id, buf, target, rnd) ==
    IF IsMulticast(target[1]) \/ IsUnspecified(target[1]) THEN w
    ELSE
    LET s == w.sockets[id]
        to == IF IsLoopback(target[1])
              THEN <<s.owner_node, target[2]>> ELSE target
    IN  SendUdpPacket(w, s.local_addr, to, buf, w.nodes[cur].time, rnd)

\* UdpSocket::send_to from the task running on node `cur`.
SendTo(w, cur, id, buf, target, rnd) ==
    IF IsMulticast(target[1]) \/ IsUnspecified(target[1]) THEN w
    ELSE
    LET s == w.sockets[id]
        to == IF IsLoopback(target[1])
              THEN <<s.owner_node, target[2]>> ELSE target
        size == w.nodes[s.owner_node].info.udp_send_buffer_size
        cut == SubSeq(buf, 1, Min({size, Len(buf)}))
    IN  SendUdpPacket(w, s.local_addr, to, cut, w.nodes[cur].time, rnd)

----------------------------------------------------------------------------
(* The tasks.  User code is outside the repository; the model runs a small *)
(* menu of programs written against the public API, each a sequence of     *)
(* calls.  A task holds its program, its position, the socket it bound (0: *)
(* none) and the TimerEntry of the sleep it is in (None: not sleeping).    *)

Programs ==
    [RecvOn1 |-> << [op |-> "bind", addrs |-> << <<1, 1>> >>],
                    [op |-> "recv_from", buf |-> 2] >>,
     Auto    |-> << [op |-> "bind", addrs |-> << <<UNSPECIFIED, 0>> >>],
                    [op |-> "recv_from", buf |-> 2] >>,
     SendTo1 |-> << [op |-> "bind", addrs |-> << <<UNSPECIFIED, 0>> >>],
                    [op |-> "send_to", to |-> <<1, 1>>, data |-> <<7, 8, 9>>] >>,
     BindDrop |-> << [op |-> "bind", addrs |-> << <<UNSPECIFIED, 0>> >>] >>,
     SendBad |-> << [op |-> "bind", addrs |-> << <<UNSPECIFIED, 0>> >>],
                    [op |-> "send_to", to |-> <<MULTICAST, 1>>, data |-> <<7, 8, 9>>],
                    [op |-> "send_to", to |-> <<UNSPECIFIED, 1>>, data |-> <<7>>] >>,
     Sleep21 |-> << [op |-> "sleep", d |-> 2], [op |-> "sleep", d |-> 1] >>,
     Sleep01 |-> << [op |-> "sleep", d |-> 0], [op |-> "sleep", d |-> 1] >>,
     Sleep00 |-> << [op |-> "sleep", d |-> 0], [op |-> "sleep", d |-> 0] >>,
     Sleep001 |-> << [op |-> "sleep", d |-> 0], [op |-> "sleep", d |-> 0],
                     [op |-> "sleep", d |-> 1] >>,
     RecvTwice |-> << [op |-> "bind", addrs |-> << <<1, 1>> >>],
                      [op |-> "recv_from", buf |-> 1],
                      [op |-> "recv_from", buf |-> 2] >>,
     SendByte |-> << [op |-> "bind", addrs |-> << <<UNSPECIFIED, 0>> >>],
                     [op |-> "send_to", to |-> <<1, 1>>, data |-> <<5>>] >>,
     Now     |-> << [op |-> "now"] >>,
     StepOther |-> << [op |-> "now"], [op |-> "next_step", node |-> 2],
                      [op |-> "now"] >>,
     Ret5    |-> << >>,
     Sleep1Ret7 |-> << [op |-> "sleep", d |-> 1] >>,
     Join    |-> << [op |-> "join"] >>,
     Loop    |-> << [op |-> "bind", addrs |-> << <<LOOPBACK, 2>> >>],
                    [op |-> "send_to", to |-> <<LOOPBACK, 2>>, data |-> <<5>>],
                    [op |-> "recv_from", buf |-> 2] >>]

ProgramNames == DOMAIN Programs

\* `chan`: the channel the task's output is sent on (0: the JoinHandle was
\* dropped at once); `handle`: the channel of the JoinHandle the task was
\* given to await (0: none); `polls`: how often Task::poll was called;
\* `queued`: how many ids of the task the queue held at its latest poll,
\* each of them a wakeup from before that poll.
NewTask(prog) ==
    [prog |-> prog, pc |-> 1, sock |-> 0, timer |-> None, chan |-> 0, handle |-> 0,
     polls |-> 0, queued |-> 0]

\* The value a program's future completes with (() for most).
Output(prog) ==
    CASE prog = "Ret5" -> 5
      [] prog = "Sleep1Ret7" -> 7
      [] OTHER -> 0

\* Runtime::spawn's oneshot::channel(), for a JoinHandle the caller keeps.
\* `complete` is set by a send and by the drop of the sender; `holder`
\* tells where the receiver is: with the caller, moved into a task, used
\* up by a completed poll ("done"), or dropped.
NewChan(w, prog) ==
    [w EXCEPT !.chans = Append(@,
        [prog |-> prog, value |-> None, complete |-> FALSE, rx_waker |-> None,
         holder |-> "caller", completed |-> FALSE, destroyed |-> FALSE])]

WakeOption(w, waker) == IF waker = None THEN w ELSE Wake(w, waker[1])

\* sender.send(result) at the end of the spawned wrapper; a send to a
\* dropped receiver fails and is ignored.
ChanSend(w, c, v) ==
    IF w.chans[c].holder = "dropped" THEN w
    ELSE WakeOption([w EXCEPT !.chans[c].value = Some(v),
                              !.chans[c].complete = TRUE],
                    w.chans[c].rx_waker)

\* The spawned wrapper has run to its end in world w.
TaskCompleted(w, task) ==
    IF task.chan = 0 THEN w
    ELSE ChanSend([w EXCEPT !.chans[task.chan].completed = TRUE],
                  task.chan, Output(task.prog))

\* The outcomes of a poll of a JoinHandle.
Ok(v) == [kind |-> "Ok", value |-> v]
JoinError == [kind |-> "JoinError", value |-> 0]
Pending == [kind |-> "Pending", value |-> 0]

\* JoinHandle::poll that reports a complete channel as aborted.
JoinResultAborted(w, c) ==
    IF w.chans[c].complete THEN JoinError ELSE Pending

\* What JoinHandle::poll finds: receiver.poll_unpin(cx).map_err(JoinError).
JoinResult(w, c) ==
    IF w.chans[c].complete
    THEN IF w.chans[c].value /= None THEN Ok(w.chans[c].value[1])
         ELSE JoinError
    ELSE Pending

\* JoinHandle::poll by `by` with the waker `waker` (None: the caller's).
JoinPoll(w, c, waker, by) ==
    IF JoinResult(w, c) = Pending THEN [w EXCEPT !.chans[c].rx_waker = waker]
    ELSE [w EXCEPT !.chans[c].holder = "done",
                   !.joinLog = Append(@, [chan |-> c, result |-> JoinResult(w, c),
                                          by |-> by])]

LogBind(w, w0, n, addrs, sock) ==
    [w EXCEPT !.lastBind = Some(
        [node |-> n, addrs |-> addrs,
         addr |-> IF sock = 0 THEN None ELSE Some(w.sockets[sock].local_addr),
         free_before |-> w0.nodes[n].free_ports,
         free_after |-> w.nodes[n].free_ports,
         reg_before |-> DOMAIN w0.network.registry,
         reg_after |-> DOMAIN w.network.registry])]

\* The poll of recv_from's poll_fn (udp.rs) by task `id` of node n.
RecvReady(w, sock) == w.sockets[sock].recv_buf.buf /= <<>>

\* recv_from that returns the whole payload whatever the length of buf.
RecvFromTakeWhole(w, n, id, sock, buflen) ==
    LET dgram == Head(w.sockets[sock].recv_buf.buf)
        len == Len(dgram.data)
    IN  [w EXCEPT !.sockets[sock].recv_buf = TakeDatagram(@),
                  !.recvLog = Append(@,
                      [node |-> n, task |-> id, sock |-> w.sockets[sock].local_addr,
                       serial |-> w.sockets[sock].serial,
                       len |-> len, buflen |-> buflen, from |-> dgram.from,
                       bytes |-> SubSeq(dgram.data, 1, len),
                       uid |-> dgram.uid, time |-> w.nodes[n].time,
                       queue |-> w.sockets[sock].recv_buf.buf,
                       left |-> TakeDatagram(w.sockets[sock].recv_buf).buf])]

\* recv_from's poll on a buffer that holds a datagram; the history entry
\* keeps the buffer's queue before (`queue`) and after (`left`).
RecvFromTake(w, n, id, sock, buflen) ==
    LET dgram == Head(w.sockets[sock].recv_buf.buf)
        len == Min({Len(dgram.data), buflen})
    IN  [w EXCEPT !.sockets[sock].recv_buf = TakeDatagram(@),
                  !.recvLog = Append(@,
                      [node |-> n, task |-> id, sock |-> w.sockets[sock].local_addr,
                       serial |-> w.sockets[sock].serial,
                       len |-> len, buflen |-> buflen, from |-> dgram.from,
                       bytes |-> SubSeq(dgram.data, 1, len),
                       uid |-> dgram.uid, time |-> w.nodes[n].time,
                       queue |-> w.sockets[sock].recv_buf.buf,
                       left |-> TakeDatagram(w.sockets[sock].recv_buf).buf])]

RecvFromWait(w, n, id, sock) ==
    [w EXCEPT !.sockets[sock].recv_waiters = Append(@, <<n, id>>)]

\* History of one send_to call that took the world from w0 to w1: what was
\* asked, what was returned, and what the call did to the network.
LogSendTo(w0, w1, id, buf, target) ==
    [w1 EXCEPT !.sendLog = Append(@,
        [from |-> w0.sockets[id].local_addr, target |-> target, buf |-> buf,
         size |-> w0.nodes[w0.sockets[id].owner_node].info.udp_send_buffer_size,
         result |-> SendToResult(w0, id, buf, target),
         panicked |-> w1.panicked,
         rng_before |-> w0.network.rng, rng_after |-> w1.network.rng,
         events_before |-> w0.network.events, events_after |-> w1.network.events,
         sent_before |-> Len(w0.sent), sent_after |-> Len(w1.sent)])]

\* One poll of the task: run its calls until one is pending or the program
\* ends.  Result: the world, the task, and whether the poll returned Pending.
RECURSIVE RunTask(_, _, _, _, _)

\* A task may hold the handle of another node and step it.
RECURSIVE NodeNextStep(_, _, _)

\* sim::now() called by a task of node n: NodeHandle::current().time(),
\* a panic when no node is current.
Now(w, n) ==
    [w EXCEPT !.ctxLog = Append(@, [node |-> n, current |-> w.current]),
              !.panicked = @ \/ w.current = None]

\* After the bind call returned b: an Err ends the task (the unwrap of the
\* tests is left out), an Ok gives the task its socket.
RunTaskBound(b, w0, n, id, task, addrs, rnd) ==
    IF b.sock = 0
    THEN RunTask(LogBind(b.w, w0, n, addrs, b.sock), n, id,
                 [task EXCEPT !.pc = Len(Programs[task.prog]) + 1], rnd)
    ELSE RunTask(LogBind(b.w, w0, n, addrs, b.sock), n, id,
                 [task EXCEPT !.pc = @ + 1, !.sock = b.sock], rnd)

\* History of one sleep call: who called it, for how long, at what time
\* (`start`); when it completes, now() at that poll (`done`), the how-manieth
\* sleep to complete it is (`seq`) and whether that was its first poll.
SleepStarted(w, n, id, d) ==
    [w EXCEPT !.sleepLog = Append(@,
        [node |-> n, task |-> id, d |-> d, start |-> w.nodes[n].time,
         done |-> None, seq |-> 0, first_poll |-> FALSE])]

OpenSleep(w, n, id) ==
    CHOOSE i \in DOMAIN w.sleepLog :
        /\ w.sleepLog[i].node = n
        /\ w.sleepLog[i].task = id
        /\ w.sleepLog[i].done = None

SleepDone(w, n, id, first) ==
    [w EXCEPT !.sleepLog[OpenSleep(w, n, id)] =
        [@ EXCEPT !.done = Some(w.nodes[n].time),
                  !.seq = 1 + Cardinality({j \in DOMAIN w.sleepLog :
                                              w.sleepLog[j].done /= None}),
                  !.first_poll = first]]

\* Sleep's poll that is ready as soon as it is polled.
RunTaskSleepNoWait(w1, n, id, task, at, rnd) ==
    RunTask(SleepDone(w1, n, id, task.timer = None), n, id,
            [task EXCEPT !.pc = @ + 1, !.timer = None], rnd)

\* Sleep's poll with timestamp < time for timestamp <= time.
RunTaskSleepStrict(w1, n, id, task, at, rnd) ==
    IF at < w1.nodes[n].time
    THEN RunTask(SleepDone(w1, n, id, task.timer = None), n, id,
                 [task EXCEPT !.pc = @ + 1, !.timer = None], rnd)
    ELSE [w |-> w1, task |-> [task EXCEPT !.timer = Some(at)], pending |-> TRUE]

\* The poll of Sleep (time.rs) with its timer at `at`, in the world w1 that
\* has the timer.
RunTaskSleep(w1, n, id, task, at, rnd) ==
    IF at <= w1.nodes[n].time
    THEN RunTask(SleepDone(w1, n, id, task.timer = None), n, id,
                 [task EXCEPT !.pc = @ + 1, !.timer = None], rnd)
    ELSE [w |-> w1, task |-> [task EXCEPT !.timer = Some(at)], pending |-> TRUE]

RunTaskIns(w, n, id, task, ins, rnd) ==
    CASE ins.op = "bind" ->
            RunTaskBound(Bind(w, n, ins.addrs), w, n, id, task, ins.addrs, rnd)
      [] ins.op = "send_to" ->
            RunTask(LogSendTo(w, SendTo(w, n, task.sock, ins.data, ins.to, rnd),
                              task.sock, ins.data, ins.to),
                    n, id, [task EXCEPT !.pc = @ + 1], rnd)
      [] ins.op = "recv_from" ->
            IF RecvReady(w, task.sock)
            THEN RunTask(RecvFromTake(w, n, id, task.sock, ins.buf),
                         n, id, [task EXCEPT !.pc = @ + 1], rnd)
            ELSE [w |-> RecvFromWait(w, n, id, task.sock),
                  task |-> task, pending |-> TRUE]
      [] ins.op = "now" ->
            RunTask(Now(w, n), n, id, [task EXCEPT !.pc = @ + 1], rnd)
      [] ins.op = "next_step" ->
            RunTask(IF ins.node \in DOMAIN w.nodes
                    THEN NodeNextStep(w, ins.node, rnd).w ELSE w,
                    n, id, [task EXCEPT !.pc = @ + 1], rnd)
      [] ins.op = "join" ->
            IF JoinResult(w, task.handle) = Pending
            THEN [w |-> JoinPoll(w, task.handle, Some(<<n, id>>), "task"),
                  task |-> task, pending |-> TRUE]
            ELSE RunTask(JoinPoll(w, task.handle, Some(<<n, id>>), "task"),
                         n, id, [task EXCEPT !.pc = @ + 1, !.handle = 0], rnd)
      [] ins.op = "sleep" ->
            IF task.timer = None
            THEN RunTaskSleep(
                    [SleepStarted(w, n, id, ins.d) EXCEPT !.nodes[n] =
                        AddTimer(@, w.nodes[n].time + ins.d, <<n, id>>)],
                    n, id, task, w.nodes[n].time + ins.d, rnd)
            ELSE RunTaskSleep(w, n, id, task, task.timer[1], rnd)

RunTask(w, n, id, task, rnd) ==
    IF w.panicked THEN [w |-> w, task |-> task, pending |-> FALSE]
    ELSE IF task.pc > Len(Programs[task.prog])
    THEN \* the future completes: its locals are dropped
         [w |-> TaskCompleted(IF task.sock /= 0 THEN DropSocket(w, task.sock)
                              ELSE w, task),
          task |-> task, pending |-> FALSE]
    ELSE RunTaskIns(w, n, id, task, Programs[task.prog][task.pc], rnd)

\* Runtime::next_step after the poll returned r: a pending task is re-added.
RuntimePolled(r, n, id) ==
    [w |-> IF r.pending THEN [r.w EXCEPT !.nodes[n] = AddTask(@, id, r.task)]
           ELSE r.w,
     ret |-> TRUE]

\* Runtime::next_step after take_task returned t.
RuntimeTaken(w, n, t, rnd) ==
    IF ~t.found THEN [w |-> [w EXCEPT !.nodes[n] = t.node], ret |-> FALSE]
    ELSE RuntimePolled(
            RunTask([w EXCEPT !.nodes[n] = t.node], n, t.id,
                    [w.nodes[n].tasks[t.id] EXCEPT
                        !.polls = @ + 1,
                        !.queued = Occurrences(t.node.task_queue, t.id)], rnd),
            n, t.id)

\* Runtime::next_step on node n: the world and whether a task was polled.
RuntimeNextStep(w, n, rnd) == RuntimeTaken(w, n, TakeTask(w.nodes[n]), rnd)

\* Runtime::submit via Runtime::spawn.
Submit(node, id, task) == PushTask(AddTask(node, id, task), id)

\* min of the next timer and the next network event, either of them an Option.
MinOption(next_time_driver, next_network) ==
    IF next_time_driver = None THEN next_network
    ELSE IF next_network = None THEN next_time_driver
    ELSE Some(Min({next_time_driver[1], next_network[1]}))

\* NodeHandle::next_event_timestamp.
NextEventTimestamp(w, n) ==
    IF HasWork(w.nodes[n]) THEN Some(w.nodes[n].time)
    ELSE MinOption(IF w.nodes[n].heap = <<>> THEN None
                   ELSE Some(w.nodes[n].heap[1].timestamp),
                   NextNetworkEvent(w))

\* NodeHandle::next_step when the runtime made no step: advance the network,
\* then the node's time driver, to the next event's time.
NodeAdvance(w, n, time) ==
    IF time /= None
    THEN [w |-> TimeAdvanceToTime(NetAdvanceToTime(w, time[1]), n, time[1]),
          ret |-> TRUE]
    ELSE [w |-> w, ret |-> FALSE]

NodeAfterRuntime(r, n) ==
    IF r.ret THEN r ELSE NodeAdvance(r.w, n, NextEventTimestamp(r.w, n))

\* ContextGuard::new and its drop, which sets NODE_HANDLE to None.
GuardNew(w, n) == [w EXCEPT !.current = Some(n)]

GuardDrop(r) == [r EXCEPT !.w.current = None]

\* NodeHandle::next_step: the world and the returned flag.
NodeNextStep(w, n, rnd) ==
    GuardDrop(NodeAfterRuntime(RuntimeNextStep(GuardNew(w, n), n, rnd), n))

\* The loop of NodeHandle::step_duration: step while the next event is not
\* after `until`.
RECURSIVE StepDurationLoop(_, _, _, _)
StepDurationLoop(w, n, until, rnd) ==
    IF w.panicked THEN w
    ELSE IF NextEventTimestamp(w, n) = None THEN w
    ELSE IF NextEventTimestamp(w, n)[1] <= until
    THEN StepDurationLoop(NodeNextStep(w, n, rnd).w, n, until, rnd)
    ELSE w

\* What follows the loop: assert!(self.time() <= until), then the time
\* driver is advanced to `until`.
StepDurationEnd(w, n, until) ==
    IF w.panicked THEN w
    ELSE IF w.nodes[n].time > until THEN [w EXCEPT !.panicked = TRUE]
    ELSE TimeAdvanceToTime(w, n, until)

\* NodeHandle::step_duration.
StepDuration(w, n, d, rnd) ==
    StepDurationEnd(StepDurationLoop(w, n, w.nodes[n].time + d, rnd),
                    n, w.nodes[n].time + d)

----------------------------------------------------------------------------
(* Sim (sim.rs).                                                           *)

\* Sim::add_node, for an IP not in the map (otherwise None is returned).
AddNode(w, ip) ==
    [w EXCEPT !.nodes = Put(@, ip, NewNodeState(ip)),
              !.network.topology = RegisterNode(@, ip)]

\* NodeBuilder::with_ip(ip).udp_recv_buffer_size(size).build(sim), for an
\* IP that is not in the map.
BuildNode(w, ip, size) ==
    [AddNode(w, ip) EXCEPT !.nodes[ip].info.udp_recv_buffer_size = size]

\* add_node that registers the IP with the topology in either case.
SimAddNodeReregisters(w, ip) ==
    IF ip \in DOMAIN w.nodes
    THEN [w EXCEPT !.network.topology = RegisterNode(@, ip)]
    ELSE AddNode(w, ip)

\* Sim::add_node: a node whose IP is in the map already is dropped unused.
SimAddNode(w, ip) == IF ip \in DOMAIN w.nodes THEN w ELSE AddNode(w, ip)

\* What Sim::add_node returns: the handle of the node with this IP, or None.
SimAddNodeRet(w, ip) == IF ip \in DOMAIN w.nodes THEN None ELSE Some(ip)

\* The keys left in the hash map's iteration order.
KeysAsCollected(keys) == keys

\* nodes.sort() over the keys collected in the hash map's iteration order.
SortNodes(keys) == SortedSeq({keys[i] : i \in DOMAIN keys})

\* The caller outside Sim::make_steps.  `calls` keeps the next_step calls
\* of the last make_steps, each as <<node, returned value>>.
IdleDriver(steps) ==
    [mode |-> "idle", order |-> <<>>, i |-> 0, was_step |-> FALSE,
     steps |-> steps, node_steps |-> 0, calls |-> <<>>]

\* Sim::make_steps up to its first node.make_steps call.
MakeStepsBegin(w, keys) ==
    IF keys = <<>> THEN [w EXCEPT !.driver = IdleDriver(0)]
    ELSE [w EXCEPT !.driver = [mode |-> "make_steps", order |-> SortNodes(keys),
                               i |-> 1, was_step |-> FALSE, steps |-> 0,
                               node_steps |-> 0, calls |-> <<>>]]

\* The calls of the running make_steps, the one that returned `ret` included.
Called(d, ret) == Append(d.calls, <<d.order[d.i], ret>>)

\* Sim::make_steps that goes by the last node of a pass alone.
MakeStepsAfterLastOnly(d, r) ==
    IF r.ret THEN [r.w EXCEPT !.driver.node_steps = @ + 1,
                              !.driver.calls = Called(d, TRUE)]
    ELSE IF d.i < Len(d.order)
    THEN [r.w EXCEPT !.driver = [d EXCEPT !.i = @ + 1,
                                          !.steps = d.steps + d.node_steps,
                                          !.was_step = d.node_steps > 0,
                                          !.node_steps = 0,
                                          !.calls = Called(d, FALSE)]]
    ELSE IF d.node_steps > 0
    THEN [r.w EXCEPT !.driver = [d EXCEPT !.i = 1,
                                          !.steps = d.steps + d.node_steps,
                                          !.was_step = FALSE,
                                          !.node_steps = 0,
                                          !.calls = Called(d, FALSE)]]
    ELSE [r.w EXCEPT !.driver = [IdleDriver(d.steps + d.node_steps)
                                    EXCEPT !.calls = Called(d, FALSE)]]

\* The loop bookkeeping of Sim::make_steps after a next_step call returned r.
MakeStepsAfter(d, r) ==
    IF r.ret THEN [r.w EXCEPT !.driver.node_steps = @ + 1,
                              !.driver.calls = Called(d, TRUE)]
    ELSE IF d.i < Len(d.order)
    THEN [r.w EXCEPT !.driver = [d EXCEPT !.i = @ + 1,
                                          !.steps = d.steps + d.node_steps,
                                          !.was_step = @ \/ d.node_steps > 0,
                                          !.node_steps = 0,
                                          !.calls = Called(d, FALSE)]]
    ELSE IF d.was_step \/ d.node_steps > 0
    THEN [r.w EXCEPT !.driver = [d EXCEPT !.i = 1,
                                          !.steps = d.steps + d.node_steps,
                                          !.was_step = FALSE,
                                          !.node_steps = 0,
                                          !.calls = Called(d, FALSE)]]
    ELSE [r.w EXCEPT !.driver = [IdleDriver(d.steps + d.node_steps)
                                    EXCEPT !.calls = Called(d, FALSE)]]

\* The next next_step call of Sim::make_steps, with the loop bookkeeping
\* that follows it.
MakeStepsIter(w, rnd) ==
    MakeStepsAfter(w.driver, NodeNextStep(w, w.driver.order[w.driver.i], rnd))

\* NodeHandle::spawn by the caller; `id` is the address of the boxed task.
Spawn(w, n, id, prog) ==
    [w EXCEPT !.nodes[n] = Submit(@, id, NewTask(prog)), !.spawned = @ + 1,
              !.high_id = Max({@, id})]

\* NodeHandle::spawn by a caller that keeps the JoinHandle.
SpawnKept(w, n, id, prog) ==
    [NewChan(w, prog) EXCEPT
        !.nodes[n] = Submit(@, id, [NewTask(prog) EXCEPT !.chan = Len(w.chans) + 1]),
        !.spawned = @ + 1,
        !.high_id = Max({@, id})]

\* NodeHandle::spawn of a task that awaits the JoinHandle c of the caller.
SpawnJoiner(w, n, id, c) ==
    [w EXCEPT !.chans[c].holder = "task",
              !.nodes[n] = Submit(@, id, [NewTask("Join") EXCEPT !.handle = c]),
              !.spawned = @ + 1,
              !.high_id = Max({@, id})]

\* The tasks alive in the runtimes of w.
AliveTasks(w) ==
    UNION {{w.nodes[n].tasks[id] : id \in DOMAIN w.nodes[n].tasks} :
              n \in DOMAIN w.nodes}

\* The drop of the Sim: every Node goes, and with its runtime the tasks
\* that did not complete; their senders and the JoinHandles they hold are
\* dropped, and their sockets find the owner node dead.
DropSim(w) ==
    [w EXCEPT
        !.chans = [c \in DOMAIN w.chans |->
            [w.chans[c] EXCEPT
                !.complete = @ \/ (\E t \in AliveTasks(w) : t.chan = c),
                !.destroyed = \E t \in AliveTasks(w) : t.chan = c,
                !.holder = IF \E t \in AliveTasks(w) : t.handle = c
                           THEN "dropped" ELSE @]],
        !.nodes = EmptyMap,
        !.sockets = EmptyMap,
        !.driver.mode = "dropped"]

\* NetworkHandle::separate: a group with an unregistered member panics.
NetSeparate(w, group) ==
    [w EXCEPT !.network.topology = Separate(@, group),
              !.panicked = SeparatePanics(w.network.topology, group)]

NetRepair(w, group) == [w EXCEPT !.network.topology = Repair(@, group)]

NetRepairAll(w) == [w EXCEPT !.network.topology = RepairAll(@)]

NetRegisterNode(w, ip) == [w EXCEPT !.network.topology = RegisterNode(@, ip)]

----------------------------------------------------------------------------
(* The state machine.                                                      *)

InitWorld ==
    [nodes |-> EmptyMap, network |-> NewNetworkState, sockets |-> EmptyMap,
     sent |-> <<>>, recvLog |-> <<>>, lastBind |-> None, lastDrop |-> None,
     binds |-> 0,
     panicked |-> FALSE, driver |-> IdleDriver(0), spawned |-> 0,
     high_id |-> 0, sendLog |-> <<>>, sleepLog |-> <<>>, chans |-> <<>>,
     joinLog |-> <<>>, current |-> None, ctxLog |-> <<>>]

World ==
    [nodes |-> nodes, network |-> network, sockets |-> sockets, sent |-> sent,
     recvLog |-> recvLog, lastBind |-> lastBind, lastDrop |-> lastDrop,
     binds |-> binds,
     panicked |-> panicked, driver |-> driver, spawned |-> spawned,
     high_id |-> high_id, sendLog |-> sendLog, sleepLog |-> sleepLog,
     chans |-> chans, joinLog |-> joinLog, current |-> current,
     ctxLog |-> ctxLog]

Init ==
    /\ nodes = InitWorld.nodes
    /\ network = InitWorld.network
    /\ sockets = InitWorld.sockets
    /\ sent = InitWorld.sent
    /\ recvLog = InitWorld.recvLog
    /\ lastBind = InitWorld.lastBind
    /\ lastDrop = InitWorld.lastDrop
    /\ binds = InitWorld.binds
    /\ panicked = InitWorld.panicked
    /\ driver = InitWorld.driver
    /\ spawned = InitWorld.spawned
    /\ high_id = InitWorld.high_id
    /\ sendLog = InitWorld.sendLog
    /\ sleepLog = InitWorld.sleepLog
    /\ chans = InitWorld.chans
    /\ joinLog = InitWorld.joinLog
    /\ current = InitWorld.current
    /\ ctxLog = InitWorld.ctxLog
    /\ stream = <<>>
    /\ twin = InitWorld
    /\ topoLog = <<>>
    /\ stepLog = <<>>
    /\ buffer = BufferWithCapacity(UDP_RECV_BUF_SIZE)

\* The step to world a, with the second run going to world b; `seen` is
\* the part of the RNG stream that is known afterwards, `log` the history
\* of topology calls, `run` the one of watched next_step calls.
StepAll(a, b, seen, log, run) ==
    /\ nodes' = a.nodes
    /\ network' = a.network
    /\ sockets' = a.sockets
    /\ sent' = a.sent
    /\ recvLog' = a.recvLog
    /\ lastBind' = a.lastBind
    /\ lastDrop' = a.lastDrop
    /\ binds' = a.binds
    /\ panicked' = a.panicked
    /\ driver' = a.driver
    /\ spawned' = a.spawned
    /\ high_id' = a.high_id
    /\ sendLog' = a.sendLog
    /\ sleepLog' = a.sleepLog
    /\ chans' = a.chans
    /\ joinLog' = a.joinLog
    /\ current' = a.current
    /\ ctxLog' = a.ctxLog
    /\ twin' = b
    /\ stream' = seen
    /\ topoLog' = log
    /\ stepLog' = run
    /\ buffer' = buffer

StepLogged(a, b, seen, log) == StepAll(a, b, seen, log, stepLog)

Step(a, b, seen) == StepLogged(a, b, seen, topoLog)

\* The RNG stream a step reads: with a second run, the values drawn so far
\* followed by the next ones; for one run alone the values before the
\* current position are not kept.
Rnd(ext, det) ==
    IF det THEN stream \o ext ELSE [i \in 1..network.rng |-> 0] \o ext

Seen(rnd, a, b, det) ==
    IF det THEN SubSeq(rnd, 1, Max({Len(stream), a.network.rng, b.network.rng}))
    ELSE <<>>

\* The values the RNG may produce next: one send draws at most two.
Draws == [1..2 -> 0..(RngMod - 1)]

InBounds(w) ==
    /\ Len(w.sent) <= MaxSends
    /\ \A id \in DOMAIN w.sockets : Len(w.sockets[id].recv_waiters) <= MaxWaiters

Idle == driver.mode = "idle" /\ ~panicked

PermSeqs(S) ==
    {f \in [1..Cardinality(S) -> S] : \A i, j \in DOMAIN f : f[i] = f[j] => i = j}

LiveTasks(w) == UNION {DOMAIN w.nodes[n].tasks : n \in DOMAIN w.nodes}

TaskIds == 1..MaxSpawns

\* `det`: the second run makes the same call.
AddNodeAct(ip, det) ==
    /\ Idle
    /\ ip \notin DOMAIN nodes
    /\ Step(AddNode(World, ip),
            IF det /\ ip \notin DOMAIN twin.nodes THEN AddNode(twin, ip) ELSE twin,
            stream)

\* The history entry of an add_node call made in world w0 that led to w1.
AddNodeEntry(w0, w1, ip) ==
    [op |-> "add_node", group |-> {ip}, before |-> w0.network.topology,
     nodes_before |-> w0.nodes, ret |-> SimAddNodeRet(w0, ip),
     nodes_after |-> w1.nodes, after |-> w1.network.topology]

\* add_node by a caller that may use an IP a second time.
AddNodeAnyAct(ip) ==
    /\ Idle
    /\ StepLogged(SimAddNode(World, ip), twin, stream,
                  <<AddNodeEntry(World, SimAddNode(World, ip), ip)>>)

\* The wakers of the timers in the heap and of those that fired, on a node
\* that runs no task.
UsedWakers(node) ==
    {node.heap[i].waker[2] : i \in DOMAIN node.heap}
        \cup {node.task_queue[i] : i \in DOMAIN node.task_queue}

\* TimeDriver::add_timer with a timestamp, as the driver's tests call it;
\* the entry's waker is one of its own.
DriverAddTimerAct(n, timestamp, id) ==
    /\ Idle
    /\ n \in DOMAIN nodes
    /\ id \notin UsedWakers(nodes[n])
    /\ Step([World EXCEPT !.nodes[n] = AddTimer(@, timestamp, <<n, id>>)], twin, stream)

\* The history entry of a call on the time driver of node n of world w0
\* that led to w1.
DriverEntry(op, w0, w1, n, to) ==
    [op |-> op, node |-> n, to |-> to, before |-> w0.nodes[n],
     after |-> w1.nodes[n], panicked |-> w1.panicked]

\* TimeDriver::advance_to_next_timer: false on an empty heap.
DriverAdvanceToNextTimer(w, n) ==
    IF w.nodes[n].heap = <<>> THEN w ELSE AdvanceToNextTimer(w, n)

DriverAdvanceToNextTimerAct(n) ==
    /\ Idle
    /\ n \in DOMAIN nodes
    /\ StepAll(DriverAdvanceToNextTimer(World, n), twin, stream, topoLog,
               <<DriverEntry("advance_to_next_timer", World,
                             DriverAdvanceToNextTimer(World, n), n, 0)>>)

DriverAdvanceToTimeAct(n, to) ==
    /\ Idle
    /\ n \in DOMAIN nodes
    /\ StepAll(TimeAdvanceToTime(World, n, to), twin, stream, topoLog,
               <<DriverEntry("advance_to_time", World,
                             TimeAdvanceToTime(World, n, to), n, to)>>)

\* The datagrams the lone buffer is offered: payloads of 0..MaxPayload bytes.
Payloads == UNION {[1..k -> 0..1] : k \in 0..MaxPayload}

\* The history entry of a call on the lone buffer that returned ret.
BufferEntry(op, dgram, ret, after) ==
    [op |-> op, dgram |-> dgram, ret |-> ret, before |-> buffer, after |-> after]

\* Buffer::add_datagram on the lone buffer.
BufferAddAct(data) ==
    /\ Len(buffer.buf) < MaxBuffered
    /\ buffer' = AddDatagram(buffer, [from |-> <<1, 1>>, to |-> <<1, 1>>, data |-> data])
    /\ stepLog' = <<BufferEntry("add_datagram",
                                [from |-> <<1, 1>>, to |-> <<1, 1>>, data |-> data],
                                AddDatagramFits(buffer, [data |-> data]),
                                AddDatagram(buffer, [from |-> <<1, 1>>, to |-> <<1, 1>>,
                                                     data |-> data]))>>
    /\ UNCHANGED simVars

\* Buffer::take_datagram on the lone buffer.
BufferTakeAct ==
    /\ buffer' = TakeDatagramRet(buffer).b
    /\ stepLog' = <<BufferEntry("take_datagram", None, TakeDatagramRet(buffer).ret,
                                TakeDatagramRet(buffer).b)>>
    /\ UNCHANGED simVars

BuildNodeAct(ip, size) ==
    /\ Idle
    /\ ip \notin DOMAIN nodes
    /\ Step(BuildNode(World, ip, size), twin, stream)

\* The history entry of a call of the network's advance_to_time(to) in
\* world w0 that led to w1; `live` holds the addresses with a live socket
\* at the call.
NetEntry(w0, w1, to) ==
    [op |-> "net_advance_to_time", to |-> to, events |-> w0.network.events,
     events_after |-> w1.network.events, sent_before |-> w0.sent,
     sent_after |-> w1.sent, panicked |-> w1.panicked,
     live |-> {addr \in DOMAIN w0.network.registry : Upgrades(w0, addr)},
     sockets_before |-> w0.sockets, sockets_after |-> w1.sockets,
     nodes_before |-> w0.nodes, nodes_after |-> w1.nodes]

\* NetworkHandle::advance_to_time called with a timestamp of its own.
NetAdvanceToTimeAct(to) ==
    /\ Idle
    /\ StepAll(NetAdvanceToTime(World, to), twin, stream, topoLog,
               <<NetEntry(World, NetAdvanceToTime(World, to), to)>>)

\* The box of a new task lies at an address no live task has: one used
\* before, or the next one never used.
SpawnAct(n, id, prog, det) ==
    /\ Idle
    /\ n \in DOMAIN nodes
    /\ spawned < MaxSpawns
    /\ id \notin LiveTasks(World)
    /\ id <= high_id + 1
    /\ Step(Spawn(World, n, id, prog),
            IF det /\ n \in DOMAIN twin.nodes /\ id \notin LiveTasks(twin)
            THEN Spawn(twin, n, id, prog) ELSE twin,
            stream)

\* One stepping call committed: a is the run's world, b the second run's.
Commit(a, b, rnd, det) ==
    /\ InBounds(a)
    /\ Step(a, b, Seen(rnd, a, b, det))

\* The history entry of a next_step call on node n of world w0: the node
\* and the event queue before, after the runtime's step (which returned
\* r.ret and led to r.w), and after the whole step (which returned s.ret
\* and led to s.w).
StepEntry(w0, r, s, n) ==
    [op |-> "next_step", node |-> n, before |-> w0.nodes[n], events |-> w0.network.events,
     run_ret |-> r.ret, run_after |-> r.w.nodes[n],
     run_events |-> r.w.network.events,
     ret |-> s.ret, after |-> s.w.nodes[n], events_after |-> s.w.network.events,
     panicked |-> s.w.panicked]

\* NodeHandle::next_step, entered into the history.
WatchedStepAct(n) ==
    /\ Idle
    /\ n \in DOMAIN nodes
    /\ \E ext \in Draws :
          /\ InBounds(NodeNextStep(World, n, Rnd(ext, FALSE)).w)
          /\ StepAll(NodeNextStep(World, n, Rnd(ext, FALSE)).w, twin, <<>>, topoLog,
                     <<StepEntry(World, RuntimeNextStep(World, n, Rnd(ext, FALSE)),
                                 NodeNextStep(World, n, Rnd(ext, FALSE)), n)>>)

NextStepAct(n, det) ==
    /\ Idle
    /\ n \in DOMAIN nodes
    /\ \E ext \in Draws :
          Commit(NodeNextStep(World, n, Rnd(ext, det)).w,
                 IF det /\ n \in DOMAIN twin.nodes /\ ~twin.panicked
                 THEN NodeNextStep(twin, n, Rnd(ext, det)).w ELSE twin,
                 Rnd(ext, det), det)

SeparateAct(group, det) ==
    /\ Idle
    /\ Step(NetSeparate(World, group),
            IF det THEN NetSeparate(twin, group) ELSE twin, stream)

RepairAct(group, det) ==
    /\ Idle
    /\ Step(NetRepair(World, group),
            IF det THEN NetRepair(twin, group) ELSE twin, stream)

RepairAllAct(det) ==
    /\ Idle
    /\ Step(NetRepairAll(World), IF det THEN NetRepairAll(twin) ELSE twin, stream)

\* The calls of the topology's unit test, each entered into the history
\* with its group and the topology it was made on.
Logged(op, group) ==
    LET e == [op |-> op, group |-> group, before |-> network.topology]
    IN  IF topoLog = <<>> THEN <<e>> ELSE <<topoLog[Len(topoLog)], e>>

RegisterNodeAct(ip) ==
    /\ Idle
    /\ StepLogged(NetRegisterNode(World, ip), twin, stream,
                  Logged("register_node", {ip}))

TopoSeparateAct(group) ==
    /\ Idle
    /\ StepLogged(NetSeparate(World, group), twin, stream, Logged("separate", group))

TopoRepairAct(group) ==
    /\ Idle
    /\ StepLogged(NetRepair(World, group), twin, stream, Logged("repair", group))

TopoRepairAllAct ==
    /\ Idle
    /\ StepLogged(NetRepairAll(World), twin, stream, Logged("repair_all", {}))

MakeStepsBeginAct(det) ==
    /\ Idle
    /\ \E keys \in PermSeqs(DOMAIN nodes) :
       \E keys2 \in PermSeqs(DOMAIN twin.nodes) :
          Step(MakeStepsBegin(World, keys),
               IF det THEN MakeStepsBegin(twin, keys2) ELSE twin, stream)

MakeStepsIterAct(det) ==
    /\ driver.mode = "make_steps"
    /\ ~panicked
    /\ driver.steps + driver.node_steps < MaxSimSteps
    /\ \E ext \in Draws :
          Commit(MakeStepsIter(World, Rnd(ext, det)),
                 IF det /\ twin.driver.mode = "make_steps" /\ ~twin.panicked
                 THEN MakeStepsIter(twin, Rnd(ext, det)) ELSE twin,
                 Rnd(ext, det), det)

\* The steps Sim::make_steps has counted in world w.
CountedSteps(w) == w.driver.steps + w.driver.node_steps

\* The next next_step call of a Sim::make_steps that runs alone.
MakeStepsRunAct ==
    /\ driver.mode = "make_steps"
    /\ ~panicked
    /\ \E ext \in Draws :
          /\ CountedSteps(MakeStepsIter(World, Rnd(ext, FALSE))) <= MaxSimSteps
          /\ Commit(MakeStepsIter(World, Rnd(ext, FALSE)), twin, Rnd(ext, FALSE), FALSE)

\* The values the RNG may produce over a call that makes several sends.
DrawsMany == [1..(2 * MaxSends) -> 0..(RngMod - 1)]

Durations == 0..MaxDuration

StepDurationAct(n, d) ==
    /\ Idle
    /\ n \in DOMAIN nodes
    /\ nodes[n].time + d <= MaxTime
    /\ \E ext \in DrawsMany :
          Commit(StepDuration(World, n, d, Rnd(ext, FALSE)), twin,
                 Rnd(ext, FALSE), FALSE)

SpawnKeptAct(n, id, prog) ==
    /\ Idle
    /\ n \in DOMAIN nodes
    /\ spawned < MaxSpawns
    /\ id \notin LiveTasks(World)
    /\ id <= high_id + 1
    /\ Step(SpawnKept(World, n, id, prog), twin, stream)

SpawnJoinerAct(n, id, c) ==
    /\ Idle
    /\ n \in DOMAIN nodes
    /\ spawned < MaxSpawns
    /\ id \notin LiveTasks(World)
    /\ id <= high_id + 1
    /\ c \in DOMAIN chans
    /\ chans[c].holder = "caller"
    /\ Step(SpawnJoiner(World, n, id, c), twin, stream)

\* The caller polls a JoinHandle it kept, outside any runtime.
PollHandleAct(c) ==
    /\ ~panicked
    /\ driver.mode \in {"idle", "dropped"}
    /\ c \in DOMAIN chans
    /\ chans[c].holder = "caller"
    /\ Step(JoinPoll(World, c, None, "caller"), twin, stream)

DropSimAct ==
    /\ Idle
    /\ Step(DropSim(World), twin, stream)

\* Tasks that communicate, on a network that is split and repaired.
Next ==
    \/ \E ip \in NodeIPs : AddNodeAct(ip, FALSE)
    \/ \E n \in NodeIPs, id \in TaskIds, prog \in {"RecvOn1", "SendTo1", "Loop"} :
          SpawnAct(n, id, prog, FALSE)
    \/ \E n \in NodeIPs : NextStepAct(n, FALSE)
    \/ \E group \in SUBSET NodeIPs : SeparateAct(group, FALSE)
    \/ \E group \in SUBSET NodeIPs : RepairAct(group, FALSE)
    \/ RepairAllAct(FALSE)

Spec == Init /\ [][Next]_vars

\* Tasks that bind sockets and drop them.
PortsNext ==
    \/ \E ip \in NodeIPs : AddNodeAct(ip, FALSE)
    \/ \E n \in NodeIPs, id \in TaskIds, prog \in {"RecvOn1", "Auto", "BindDrop"} :
          SpawnAct(n, id, prog, FALSE)
    \/ \E n \in NodeIPs : NextStepAct(n, FALSE)

SpecPorts == Init /\ [][PortsNext]_vars

\* Tasks that send to a socket, and to destinations send_to turns down.
SendNext ==
    \/ \E ip \in NodeIPs : AddNodeAct(ip, FALSE)
    \/ \E n \in NodeIPs, id \in TaskIds, prog \in {"RecvOn1", "SendTo1", "SendBad"} :
          SpawnAct(n, id, prog, FALSE)
    \/ \E n \in NodeIPs : NextStepAct(n, FALSE)

SpecSend == Init /\ [][SendNext]_vars

\* Tasks that sleep and a task that sends, on nodes stepped one by one and
\* for a duration.
TimeNext ==
    \/ \E ip \in NodeIPs : AddNodeAct(ip, FALSE)
    \/ \E n \in NodeIPs, id \in TaskIds, prog \in {"Sleep21", "Sleep01", "SendTo1"} :
          spawned < MaxTimeSpawns /\ SpawnAct(n, id, prog, FALSE)
    \/ \E n \in NodeIPs : NextStepAct(n, FALSE)
    \/ \E n \in NodeIPs, d \in Durations : StepDurationAct(n, d)

SpecTime == Init /\ [][TimeNext]_vars

\* Tasks whose JoinHandle is kept: awaited by another task, polled by the
\* caller, before and after the Sim is dropped.
JoinNext ==
    \/ \E ip \in NodeIPs : AddNodeAct(ip, FALSE)
    \/ \E n \in NodeIPs, id \in TaskIds, prog \in {"Ret5", "Sleep1Ret7"} :
          SpawnKeptAct(n, id, prog)
    \/ \E n \in NodeIPs, id \in TaskIds, c \in 1..MaxSpawns : SpawnJoinerAct(n, id, c)
    \/ \E n \in NodeIPs : NextStepAct(n, FALSE)
    \/ \E c \in 1..MaxSpawns : PollHandleAct(c)
    \/ DropSimAct

SpecJoin == Init /\ [][JoinNext]_vars

\* Nodes added, also under an IP in use, to a network that is split and
\* repaired while tasks communicate.
NodesNext ==
    \/ \E ip \in NodeIPs : AddNodeAnyAct(ip)
    \/ \E n \in NodeIPs, id \in TaskIds, prog \in {"RecvOn1", "SendTo1"} :
          spawned < MaxTimeSpawns /\ SpawnAct(n, id, prog, FALSE)
    \/ \E n \in NodeIPs : NextStepAct(n, FALSE)
    \/ \E group \in SUBSET NodeIPs : SeparateAct(group, FALSE)
    \/ \E group \in SUBSET NodeIPs : RepairAct(group, FALSE)
    \/ RepairAllAct(FALSE)

SpecNodes == Init /\ [][NodesNext]_vars

\* The time driver of a node alone, driven as its unit tests drive it.
DriverNext ==
    \/ AddNodeAct(Min(NodeIPs), FALSE)
    \/ \E n \in NodeIPs, timestamp \in 0..MaxTime, id \in TaskIds :
          DriverAddTimerAct(n, timestamp, id)
    \/ \E n \in NodeIPs : DriverAdvanceToNextTimerAct(n)
    \/ \E n \in NodeIPs, to \in 0..MaxTime : DriverAdvanceToTimeAct(n, to)

SpecDriver == Init /\ [][DriverNext]_vars

\* Tasks that are woken by timers, once and several times at once, on
\* nodes whose next_step calls are watched.
RunNext ==
    \/ \E ip \in NodeIPs : AddNodeAct(ip, FALSE)
    \/ \E n \in NodeIPs, id \in TaskIds,
          prog \in {"Sleep00", "Sleep001", "Sleep21", "Ret5"} :
          spawned < MaxTimeSpawns /\ SpawnAct(n, id, prog, FALSE)
    \/ \E n \in NodeIPs : WatchedStepAct(n)

SpecRun == Init /\ [][RunNext]_vars

\* Tasks that sleep and tasks that send, on nodes that share the network's
\* event queue and whose next_step calls are watched.
StepNext ==
    \/ \E ip \in NodeIPs : AddNodeAct(ip, FALSE)
    \/ \E n \in NodeIPs, id \in TaskIds, prog \in {"Sleep21", "Sleep01", "SendTo1"} :
          spawned < MaxTimeSpawns /\ SpawnAct(n, id, prog, FALSE)
    \/ \E n \in NodeIPs : WatchedStepAct(n)

SpecStep == Init /\ [][StepNext]_vars

\* Senders and a receiver whose packets wait in the event queue until the
\* network is advanced, by a node's step or to a time of the caller's.
NetNext ==
    \/ \E ip \in NodeIPs : AddNodeAct(ip, FALSE)
    \/ \E n \in NodeIPs, id \in TaskIds, prog \in {"RecvOn1", "Auto", "SendTo1"} :
          SpawnAct(n, id, prog, FALSE)
    \/ \E n \in NodeIPs : NextStepAct(n, FALSE)
    \/ \E to \in 0..MaxTime : NetAdvanceToTimeAct(to)

SpecNet == Init /\ [][NetNext]_vars

\* A receiver on a node whose receive buffer holds a packet, or is too
\* small for one, and senders to it.
WakeNext ==
    \/ \E ip \in NodeIPs, size \in {1, UDP_RECV_BUF_SIZE} : BuildNodeAct(ip, size)
    \/ \E n \in NodeIPs, id \in TaskIds, prog \in {"RecvOn1", "SendTo1"} :
          spawned < MaxTimeSpawns /\ SpawnAct(n, id, prog, FALSE)
    \/ \E n \in NodeIPs : NextStepAct(n, FALSE)
    \/ \E to \in 0..MaxTime : NetAdvanceToTimeAct(to)

SpecWake == Init /\ [][WakeNext]_vars

\* A task that receives twice, into a short and into a long buffer, and
\* senders of a short and of a long packet.
RecvNext ==
    \/ \E ip \in NodeIPs : AddNodeAct(ip, FALSE)
    \/ \E n \in NodeIPs, id \in TaskIds, prog \in {"RecvTwice", "SendTo1", "SendByte"} :
          SpawnAct(n, id, prog, FALSE)
    \/ \E n \in NodeIPs : NextStepAct(n, FALSE)

SpecRecv == Init /\ [][RecvNext]_vars

\* A Buffer on its own, filled and emptied as in the tests of datagram.rs.
BufferNext ==
    \/ \E data \in Payloads : BufferAddAct(data)
    \/ BufferTakeAct

SpecBuffer == Init /\ [][BufferNext]_vars

\* Tasks that ask for the current time, one of them after it has stepped
\* the node 10.12.1.2, whose handle it holds.
ContextNext ==
    \/ \E ip \in NodeIPs : AddNodeAct(ip, FALSE)
    \/ \E n \in NodeIPs, id \in TaskIds, prog \in {"Now", "Sleep01"} :
          SpawnAct(n, id, prog, FALSE)
    \/ \E id \in TaskIds : 2 \in DOMAIN nodes /\ SpawnAct(1, id, "StepOther", FALSE)
    \/ \E n \in NodeIPs : NextStepAct(n, FALSE)

SpecContext == Init /\ [][ContextNext]_vars

\* Tasks that communicate and sleep, stepped by Sim::make_steps alone.
SimNext ==
    \/ \E ip \in NodeIPs : AddNodeAct(ip, FALSE)
    \/ \E n \in NodeIPs, id \in TaskIds, prog \in {"RecvOn1", "SendTo1", "Sleep01"} :
          SpawnAct(n, id, prog, FALSE)
    \/ MakeStepsBeginAct(FALSE)
    \/ MakeStepsRunAct

SpecSim == Init /\ [][SimNext]_vars

\* Two runs on one seed given the same calls, driven by Sim::make_steps.
DetNext ==
    \/ \E ip \in NodeIPs : AddNodeAct(ip, TRUE)
    \/ \E n \in NodeIPs, id \in TaskIds, prog \in {"RecvOn1", "SendTo1"} :
          SpawnAct(n, id, prog, TRUE)
    \/ \E group \in SUBSET NodeIPs : SeparateAct(group, TRUE)
    \/ \E group \in SUBSET NodeIPs : RepairAct(group, TRUE)
    \/ \E n \in NodeIPs : NextStepAct(n, TRUE)
    \/ MakeStepsBeginAct(TRUE)
    \/ MakeStepsIterAct(TRUE)

SpecDet == Init /\ [][DetNext]_vars

\* The bare topology, driven as its unit test drives it.
TopoNext ==
    \/ \E ip \in TopoIPs : RegisterNodeAct(ip)
    \/ \E group \in SUBSET TopoIPs : TopoSeparateAct(group)
    \/ \E group \in SUBSET TopoIPs : TopoRepairAct(group)
    \/ TopoRepairAllAct

SpecTopo == Init /\ [][TopoNext]_vars

----------------------------------------------------------------------------
(* The properties.                                                         *)

\* next_step of node n would return true.
CanStep(n) == NodeNextStep(World, n, Rnd(<<0, 0>>, FALSE)).ret

\* No node can step: every next_step returns false.
Quiescent == ~panicked /\ DOMAIN nodes /= {} /\ \A n \in DOMAIN nodes : ~CanStep(n)

\* The address a bind of node n on candidate a asks the registry for.
Resolve(n, a) ==
    <<IF IsUnspecified(a[1]) \/ IsLoopback(a[1]) THEN n ELSE a[1], a[2]>>

\* Candidate addresses with an explicit port.
BindAddrs == (NodeIPs \cup {UNSPECIFIED, LOOPBACK}) \X Ports

(* C1: two runs on the same seed that get the same add_node, spawn,        *)
(* separate/repair and stepping calls make the same drop decisions,        *)
(* schedule the same delivery timestamps, deliver the same datagrams in    *)
(* the same order and have the same node clocks after every step,          *)
(* whatever order each run's hash map yields its nodes in.                 *)
C1_Deterministic ==
    /\ twin.sent = sent
    /\ twin.recvLog = recvLog
    /\ DOMAIN twin.nodes = DOMAIN nodes
    /\ \A n \in DOMAIN nodes : twin.nodes[n].time = nodes[n].time

\* Sim::make_steps over two nodes has delivered a datagram across the
\* network and a clock has moved.
C1_Witness ==
    /\ Cardinality(DOMAIN nodes) = 2
    /\ driver.steps + driver.node_steps > 0
    /\ \E r \in DOMAIN recvLog : sent[recvLog[r].uid].from[1] /= recvLog[r].node
    /\ \E n \in DOMAIN nodes : nodes[n].time > 0

(* C2: a send issued while hops(sender ip, receiver ip) is none is         *)
(* reported dropped and schedules no event; afterwards no event, no        *)
(* receive buffer and no completed recv_from ever holds that datagram.     *)
C2_PartitionBlocksDelivery ==
    \A u \in DOMAIN sent :
        sent[u].hops = None =>
            /\ sent[u].dropped
            /\ sent[u].timestamp = None
            /\ sent[u].fate = "none"
            /\ \A i \in DOMAIN network.events : network.events[i].uid /= u
            /\ \A id \in DOMAIN sockets :
                  \A k \in DOMAIN sockets[id].recv_buf.buf :
                      sockets[id].recv_buf.buf[k].uid /= u
            /\ \A r \in DOMAIN recvLog : recvLog[r].uid /= u

\* A send between live sockets passed the drop sample and was stopped by
\* the partition; after the repair the same receiver got a later datagram
\* and its recv_from returned that one.
C2_Witness ==
    \E u, v \in DOMAIN sent :
        /\ sent[u].cause = "hops"
        /\ u < v
        /\ sent[v].to = sent[u].to
        /\ sent[v].from[1] = sent[u].from[1]
        /\ \E r \in DOMAIN recvLog : recvLog[r].uid = v

(* C3: once no node can step, every datagram that was scheduled and then   *)
(* put into the buffer of a socket a task was waiting on in recv_from has  *)
(* been returned by that recv_from with the payload's length, the sender's *)
(* socket address and the payload's bytes.                                 *)
C3_EndToEndDelivery ==
    Quiescent =>
        \A u \in DOMAIN sent :
            (sent[u].cause = "scheduled" /\ sent[u].fate = "buffered"
                /\ sent[u].awaited)
            => \E r \in DOMAIN recvLog :
                  /\ recvLog[r].uid = u
                  /\ recvLog[r].sock = sent[u].to
                  /\ recvLog[r].len = Len(sent[u].data)
                  /\ recvLog[r].from = sent[u].from
                  /\ recvLog[r].bytes = sent[u].data

\* No node can step and a datagram sent from one node was received by a
\* task waiting on another.
C3_Witness ==
    /\ Quiescent
    /\ \E u \in DOMAIN sent :
          /\ sent[u].awaited
          /\ sent[u].from[1] /= sent[u].to[1]
          /\ \E r \in DOMAIN recvLog : recvLog[r].uid = u

(* C4: a datagram a socket sends to its own address takes no drop sample,  *)
(* is not dropped, is scheduled at exactly the sender's current time, and  *)
(* a recv_from on that socket that returns it does so with the node's      *)
(* time still at the send time.                                            *)
C4_Loopback ==
    \A u \in DOMAIN sent :
        sent[u].from = sent[u].to =>
            /\ sent[u].cause = "scheduled"
            /\ sent[u].draws = 1
            /\ sent[u].timestamp = Some(sent[u].now)
            /\ \A r \in DOMAIN recvLog :
                  (recvLog[r].uid = u /\ recvLog[r].serial = sent[u].from_serial)
                  => /\ recvLog[r].sock = sent[u].from
                     /\ recvLog[r].time = sent[u].now

\* A socket bound and addressed by 127.0.0.1 sent to itself after its
\* node's clock had moved, and received the datagram.
C4_Witness ==
    \E u \in DOMAIN sent :
        /\ sent[u].from = sent[u].to
        /\ sent[u].now > 0
        /\ \E r \in DOMAIN recvLog :
              recvLog[r].uid = u /\ recvLog[r].serial = sent[u].from_serial

\* The live sockets node n owns.
OwnedSockets(n) == {id \in DOMAIN sockets : sockets[id].owner_node = n}

(* C5: on every node, the free ports plus the live sockets the node owns   *)
(* number u16::MAX, and every port is free or the port of exactly one      *)
(* live socket of the node, never both.                                    *)
C5_PortAccounting ==
    \A n \in DOMAIN nodes :
        /\ Cardinality(nodes[n].free_ports) + Cardinality(OwnedSockets(n)) = U16Max
        /\ \A p \in Ports :
              (p \in nodes[n].free_ports) /=
              (Cardinality({id \in OwnedSockets(n) :
                               sockets[id].local_addr[2] = p}) = 1)

\* What C6 asks of a bind by node n on the occupied address `addr`, b being
\* what the bind returns.
KeepsFirst(b, addr) ==
    /\ b.sock = 0
    /\ b.w.network.registry = network.registry
    /\ b.w.sockets = sockets
    /\ addr[2] \notin
          b.w.nodes[sockets[network.registry[addr]].owner_node].free_ports

(* C6: a bind on an (ip, port) a live socket is bound on fails             *)
(* (AddrInUse), and that socket stays registered, stays as it was and      *)
(* keeps its port out of its node's free set.                              *)
C6_BindOnOccupied ==
    /\ \A n \in DOMAIN nodes, a \in BindAddrs :
          Upgrades(World, Resolve(n, a)) =>
              KeepsFirst(Bind(World, n, <<a>>), Resolve(n, a))
    /\ (/\ lastBind /= None
         /\ lastBind[1].addrs[1][2] /= 0
         /\ Resolve(lastBind[1].node, lastBind[1].addrs[1]) \in lastBind[1].reg_before)
        => /\ lastBind[1].addr = None
           /\ lastBind[1].reg_after = lastBind[1].reg_before

\* A task's bind on an occupied address has failed, and the socket bound
\* first is still alive.
C6_Witness ==
    /\ lastBind /= None
    /\ lastBind[1].addrs[1][2] /= 0
    /\ lastBind[1].addr = None
    /\ Resolve(lastBind[1].node, lastBind[1].addrs[1]) \in lastBind[1].reg_before
    /\ Upgrades(World, Resolve(lastBind[1].node, lastBind[1].addrs[1]))

(* C7: a bind on an address whose IP is not the node's IP, not loopback    *)
(* and not unspecified returns an error, registers no socket and takes no  *)
(* port from the node.                                                     *)
C7_BindOnOtherIp ==
    lastBind /= None =>
        (lastBind[1].addrs[1][1] \notin {lastBind[1].node, UNSPECIFIED, LOOPBACK}
         => /\ lastBind[1].addr = None
            /\ lastBind[1].reg_after = lastBind[1].reg_before
            /\ lastBind[1].free_after = lastBind[1].free_before)

(* C8: a bind with port 0 gets the smallest port of the node's free set,   *)
(* which is not 0, and fails only when the free set is empty.              *)
C8_AutoPort ==
    lastBind /= None =>
        (lastBind[1].addrs = << <<UNSPECIFIED, 0>> >>
         => IF lastBind[1].free_before = {}
            THEN lastBind[1].addr = None
            ELSE /\ lastBind[1].addr =
                        Some(<<lastBind[1].node, Min(lastBind[1].free_before)>>)
                 /\ Min(lastBind[1].free_before) /= 0)

\* What C9 asks of the world w1 a drop of the socket s leaves.
Released(w1, s) ==
    /\ ~w1.panicked
    /\ s.local_addr[2] \in w1.nodes[s.owner_node].free_ports
    /\ s.local_addr \notin DOMAIN w1.network.registry
    /\ Bind(w1, s.owner_node, <<s.local_addr>>).sock /= 0
    /\ \A f \in DOMAIN w1.network.registry :
          Upgrades(w1, f) =>
              /\ ~SendUdpPacket(w1, f, s.local_addr, <<1>>, 0, <<0, 0>>).panicked
              /\ SendUdpPacket(w1, f, s.local_addr, <<1>>, 0, <<0, 0>>).sent
                    [Len(w1.sent) + 1].dropped
              /\ SendUdpPacket(w1, f, s.local_addr, <<1>>, 0, <<0, 0>>)
                    .network.events = w1.network.events

(* C9: the drop of a live socket puts its port back into its node's free   *)
(* set and removes its registry entry; after it a bind of the node on the  *)
(* same (ip, port) succeeds and a send to the address is reported dropped  *)
(* and schedules nothing.                                                  *)
C9_DropReleases ==
    \A id \in DOMAIN sockets : Released(DropSocket(World, id), sockets[id])

\* A task has dropped its socket while another socket is alive.
C9_Witness ==
    /\ lastDrop /= None
    /\ lastDrop[1].addr \notin DOMAIN network.registry
    /\ DOMAIN sockets /= {}

----------------------------------------------------------------------------
(* C10: for every registered node x, hops(x, x) = 0 after any sequence of  *)
(* register_node, separate, repair and repair_all.                         *)
C10_SelfHopsZero ==
    \A x \in network.topology.nodes : Hops(network.topology, x, x) = Some(0)

\* A registered node that was separated from another one and repaired.
C10_Witness ==
    \E x, y \in network.topology.nodes :
        /\ x /= y
        /\ <<x, y>> \notin network.topology.links
        /\ Cardinality(network.topology.nodes) = MaxTopoIP

----------------------------------------------------------------------------
\* The latest call made on the bare topology, and the one before it.
LastTopo == topoLog[Len(topoLog)]

\* All links between distinct registered nodes exist.
AllLinks(t) == \A a, b \in t.nodes : a /= b => <<a, b>> \in t.links

(* C11: right after repair_all, whatever register_node, separate and       *)
(* repair calls came before, hops(x, y) = 1 for every ordered pair of      *)
(* distinct registered nodes.                                              *)
C11_RepairAllFullMesh ==
    (topoLog /= <<>> /\ LastTopo.op = "repair_all") =>
        \A x, y \in network.topology.nodes :
            x /= y => Hops(network.topology, x, y) = Some(1)

\* repair_all has run on three registered nodes with a link cut.
C11_Witness ==
    /\ topoLog /= <<>>
    /\ LastTopo.op = "repair_all"
    /\ Cardinality(LastTopo.before.nodes) = MaxTopoIP
    /\ ~AllLinks(LastTopo.before)

(* C12: right after separate(G) returned on a topology that had every link *)
(* between registered nodes, hops(a, b) of registered a, b is none exactly *)
(* when one of a, b is in G and the other is not.                          *)
C12_SeparateCuts ==
    (/\ topoLog /= <<>>
     /\ LastTopo.op = "separate"
     /\ ~panicked
     /\ AllLinks(LastTopo.before))
    => \A a, b \in network.topology.nodes :
          (Hops(network.topology, a, b) = None)
          <=> ((a \in LastTopo.group) /= (b \in LastTopo.group))

\* separate of a group with a member and a non-member among three
\* registered, fully linked nodes has returned.
C12_Witness ==
    /\ topoLog /= <<>>
    /\ LastTopo.op = "separate"
    /\ ~panicked
    /\ AllLinks(LastTopo.before)
    /\ Cardinality(LastTopo.before.nodes) = MaxTopoIP
    /\ LastTopo.group /= {}
    /\ LastTopo.group /= LastTopo.before.nodes

(* C13: right after separate(G) followed by repair(G), every link between  *)
(* two members of G is present in both directions and every link with an   *)
(* endpoint outside G is present exactly if it was after the separate.     *)
C13_SeparateThenRepair ==
    (/\ Len(topoLog) = 2
     /\ topoLog[1].op = "separate"
     /\ topoLog[2].op = "repair"
     /\ topoLog[2].group = topoLog[1].group
     /\ ~panicked)
    => /\ \A a, b \in topoLog[2].group :
             <<a, b>> \in network.topology.links
             /\ <<b, a>> \in network.topology.links
       /\ \A a, b \in TopoIPs :
             (a \notin topoLog[2].group \/ b \notin topoLog[2].group)
             => (<<a, b>> \in network.topology.links
                 <=> <<a, b>> \in topoLog[2].before.links)

\* separate(G) then repair(G) of a group of two of three registered nodes
\* whose link to each other was cut before, and whose links to the third
\* stay cut.
C13_Witness ==
    /\ Len(topoLog) = 2
    /\ topoLog[1].op = "separate"
    /\ topoLog[2].op = "repair"
    /\ topoLog[2].group = topoLog[1].group
    /\ ~panicked
    /\ Cardinality(network.topology.nodes) = MaxTopoIP
    /\ \E a, b \in topoLog[2].group :
          a /= b /\ <<a, b>> \notin topoLog[2].before.links
    /\ \E a \in topoLog[2].group, c \in network.topology.nodes :
          <<a, c>> \notin network.topology.links

----------------------------------------------------------------------------
\* The sum of the payload lengths of the datagrams of a queue.
RECURSIVE SumLen(_)
SumLen(q) == IF q = <<>> THEN 0 ELSE Len(Head(q).data) + SumLen(Tail(q))

(* C14: in every receive buffer the running byte total is the sum of the   *)
(* payload lengths of the datagrams enqueued, and is at most the capacity. *)
C14_BufferBytes ==
    \A id \in DOMAIN sockets :
        /\ sockets[id].recv_buf.len = SumLen(sockets[id].recv_buf.buf)
        /\ sockets[id].recv_buf.len <= sockets[id].recv_buf.capacity

\* A buffer holds a datagram after add_datagram turned another one down
\* for want of room.
C14_Witness ==
    /\ \E u \in DOMAIN sent : sent[u].fate = "overflow"
    /\ \E id \in DOMAIN sockets : sockets[id].recv_buf.len > 0

----------------------------------------------------------------------------
\* send_to turns the destination down.
BadTarget(e) == IsMulticast(e.target[1]) \/ IsUnspecified(e.target[1])

(* C15: a send_to whose destination IP is multicast or unspecified returns *)
(* InvalidInput and does nothing: the network is not called, no event is   *)
(* scheduled and no value is taken from the RNG.                           *)
C15_BadSendTo ==
    \A i \in DOMAIN sendLog :
        BadTarget(sendLog[i]) =>
            /\ sendLog[i].result = "InvalidInput"
            /\ sendLog[i].events_after = sendLog[i].events_before
            /\ sendLog[i].rng_after = sendLog[i].rng_before
            /\ sendLog[i].sent_after = sendLog[i].sent_before

\* After a send to a live socket had taken values from the RNG and was
\* scheduled, a task sent to a multicast and to an unspecified destination.
C15_Witness ==
    \E i, j, k \in DOMAIN sendLog :
        /\ i < j /\ j < k
        /\ sendLog[i].rng_after > sendLog[i].rng_before
        /\ sendLog[i].events_after /= sendLog[i].events_before
        /\ IsMulticast(sendLog[j].target[1])
        /\ IsUnspecified(sendLog[k].target[1])
        /\ sendLog[k].events_before /= <<>>

\* The events a send_to call added to the network's heap.
Scheduled(e) ==
    {e.events_after[i] : i \in DOMAIN e.events_after}
        \ {e.events_before[i] : i \in DOMAIN e.events_before}

(* C16: a send_to to any other destination returns Ok(min(len(buf),        *)
(* udp_send_buffer_size)) whether the network dropped the packet or        *)
(* scheduled it, without a panic; it schedules at most one event, whose    *)
(* payload is the first min(len(buf), udp_send_buffer_size) bytes of buf.  *)
C16_FireAndForget ==
    \A i \in DOMAIN sendLog :
        ~BadTarget(sendLog[i]) =>
            /\ ~sendLog[i].panicked
            /\ sendLog[i].result
                  = Some(Min({Len(sendLog[i].buf), sendLog[i].size}))
            /\ sendLog[i].sent_after = sendLog[i].sent_before + 1
            /\ sent[sendLog[i].sent_after].dropped = (Scheduled(sendLog[i]) = {})
            /\ Cardinality(Scheduled(sendLog[i])) <= 1
            /\ \A ev \in Scheduled(sendLog[i]) :
                  ev.data = SubSeq(sendLog[i].buf, 1,
                                   Min({Len(sendLog[i].buf), sendLog[i].size}))

\* A send of more bytes than the send buffer holds was scheduled, and
\* another one was dropped.
C16_Witness ==
    \E i, j \in DOMAIN sendLog :
        /\ Len(sendLog[i].buf) > sendLog[i].size
        /\ Scheduled(sendLog[i]) /= {}
        /\ ~BadTarget(sendLog[j])
        /\ Scheduled(sendLog[j]) = {}

----------------------------------------------------------------------------
(* C17: a sleep(d) called at node time t completes with now() = t + d,     *)
(* never earlier; and of two sleeps of one node, the one with the earlier  *)
(* deadline completes first.                                               *)
C17_SleepResumesAtDeadline ==
    /\ \A i \in DOMAIN sleepLog :
          sleepLog[i].done /= None =>
              sleepLog[i].done = Some(sleepLog[i].start + sleepLog[i].d)
    /\ \A i, j \in DOMAIN sleepLog :
          (/\ sleepLog[i].node = sleepLog[j].node
           /\ sleepLog[i].start + sleepLog[i].d < sleepLog[j].start + sleepLog[j].d
           /\ sleepLog[j].done /= None)
          => /\ sleepLog[i].done /= None
             /\ sleepLog[i].seq < sleepLog[j].seq

\* A task that slept for 2 from time 0 went on to sleep for 1 from time 2
\* and resumed at 3, after a task of the same node whose sleep ended at 1.
C17_Witness ==
    \E i, j \in DOMAIN sleepLog :
        /\ sleepLog[i].start = 2 /\ sleepLog[i].d = 1 /\ sleepLog[i].done = Some(3)
        /\ sleepLog[j].node = sleepLog[i].node
        /\ sleepLog[j].task /= sleepLog[i].task
        /\ sleepLog[j].done = Some(1)

(* C18: a sleep(0) is complete once the node step that polled it is over:  *)
(* it completes at its first poll, with now() the time it was started at.  *)
C18_SleepZero ==
    \A i \in DOMAIN sleepLog :
        sleepLog[i].d = 0 =>
            /\ sleepLog[i].done = Some(sleepLog[i].start)
            /\ sleepLog[i].first_poll

\* A sleep(0) was called after the node's clock had moved.
C18_Witness ==
    \E i \in DOMAIN sleepLog : sleepLog[i].d = 0 /\ sleepLog[i].start > 0

\* What C19 asks of the world w1 that step_duration of node n leaves when
\* called to reach `until`.
SteppedTo(w1, n, until) ==
    /\ ~w1.panicked
    /\ w1.nodes[n].time = until
    /\ \A k \in DOMAIN w1.nodes[n].heap : w1.nodes[n].heap[k].timestamp > until
    /\ \A i \in DOMAIN w1.sleepLog :
          w1.sleepLog[i].node = n =>
              ((w1.sleepLog[i].start + w1.sleepLog[i].d <= until)
               <=> (w1.sleepLog[i].done /= None))

(* C19: step_duration(d) of a node at time t returns with the node's time  *)
(* at t + d, no timer of the node with a timestamp <= t + d left, every    *)
(* sleep of the node with a deadline <= t + d completed and no other.      *)
C19_StepDuration ==
    ~panicked =>
        \A n \in DOMAIN nodes, d \in Durations, r \in 0..(RngMod - 1) :
            SteppedTo(StepDuration(World, n, d,
                                   [i \in 1..(network.rng + 2 * MaxSends) |-> r]),
                      n, nodes[n].time + d)

----------------------------------------------------------------------------
\* The tasks alive that were given the JoinHandle c and have not got its
\* result, as <<node, id>>.
Joiners(c) ==
    {p \in (DOMAIN nodes) \X TaskIds :
        /\ p[2] \in DOMAIN nodes[p[1]].tasks
        /\ nodes[p[1]].tasks[p[2]].handle = c}

(* C20: a JoinHandle completes with Ok(output) only of a task that ran to   *)
(* its end and with JoinError only of a task that was destroyed before;    *)
(* a handle not yet completed is ready with Ok(output) from the moment the *)
(* task has run to its end, also if it is polled first after that, and is  *)
(* ready with JoinError from the moment the task is destroyed; and a task  *)
(* awaiting the handle of a task that ran to its end is in its runtime's   *)
(* queue.                                                                  *)
C20_JoinHandle ==
    /\ \A i \in DOMAIN joinLog :
          /\ joinLog[i].result /= JoinError
                => /\ chans[joinLog[i].chan].completed
                   /\ joinLog[i].result = Ok(Output(chans[joinLog[i].chan].prog))
          /\ joinLog[i].result = JoinError
                => /\ chans[joinLog[i].chan].destroyed
                   /\ ~chans[joinLog[i].chan].completed
    /\ \A c \in DOMAIN chans :
          chans[c].holder \in {"caller", "task"} =>
              /\ chans[c].completed
                    => JoinResult(World, c) = Ok(Output(chans[c].prog))
              /\ chans[c].destroyed => JoinResult(World, c) = JoinError
              /\ (~chans[c].completed /\ ~chans[c].destroyed)
                    => JoinResult(World, c) = Pending
              /\ chans[c].completed =>
                    \A p \in Joiners(c) :
                        \E k \in DOMAIN nodes[p[1]].task_queue :
                            nodes[p[1]].task_queue[k] = p[2]

\* A task got Ok(output) from the handle of a task it had to wait for, and
\* the caller got JoinError from the handle of a task that was asleep when
\* the Sim was dropped.
C20_Witness ==
    \E i, j \in DOMAIN joinLog :
        /\ joinLog[i].by = "task"
        /\ joinLog[i].result.kind = "Ok"
        /\ chans[joinLog[i].chan].rx_waker /= None
        /\ joinLog[j].by = "caller"
        /\ joinLog[j].result = JoinError

----------------------------------------------------------------------------
\* The node IPs in ascending order.
Ascending == SortedSeq(DOMAIN nodes)

\* The number of next_step calls before call k that returned false: each
\* one ended the visit of a node.
VisitsBefore(c, k) == Cardinality({j \in 1..(k - 1) : ~c[j][2]})

\* The pass call k of c belongs to, counted from 0.
PassOf(c, k) == VisitsBefore(c, k) \div Cardinality(DOMAIN nodes)

\* The calls c go through the nodes in ascending order, pass after pass,
\* staying with a node until its next_step returns false.
InAscendingPasses(c) ==
    \A k \in DOMAIN c :
        c[k][1] = Ascending[(VisitsBefore(c, k) % Cardinality(DOMAIN nodes)) + 1]

\* Sim::make_steps has just returned: the last pass was a full one without
\* a step, every pass before it made one, the value returned is the number
\* of calls that returned true, and nothing is left to do on any node.
ReturnedWhenDone ==
    /\ VisitsBefore(driver.calls, Len(driver.calls) + 1) % Cardinality(DOMAIN nodes) = 0
    /\ \A k \in DOMAIN driver.calls :
          PassOf(driver.calls, k) = PassOf(driver.calls, Len(driver.calls))
              => ~driver.calls[k][2]
    /\ \A p \in 0..(PassOf(driver.calls, Len(driver.calls)) - 1) :
          \E k \in DOMAIN driver.calls :
              PassOf(driver.calls, k) = p /\ driver.calls[k][2]
    /\ driver.steps = Cardinality({k \in DOMAIN driver.calls : driver.calls[k][2]})
    /\ network.events = <<>>
    /\ \A n \in DOMAIN nodes :
          /\ ~HasWork(nodes[n])
          /\ NextTimer(nodes[n]) = None
          /\ \A k \in DOMAIN nodes[n].task_queue :
                nodes[n].task_queue[k] \notin DOMAIN nodes[n].tasks

(* C21: every next_step call of Sim::make_steps goes to the nodes in       *)
(* ascending IP order, pass after pass, each node stepped until it makes   *)
(* no step; and when make_steps returns, the last pass was a full pass in  *)
(* which no node made a step and every earlier pass made one, no node has  *)
(* a runnable task or a pending timer, the network event queue is empty,   *)
(* and the value returned is the number of steps the nodes made.           *)
C21_MakeSteps ==
    [][(driver.mode = "make_steps" /\ ~panicked')
          => /\ InAscendingPasses(driver.calls)'
             /\ driver'.mode = "idle" => ReturnedWhenDone']_vars

\* make_steps over two nodes has returned after three passes: a task of
\* the first node was woken by a datagram the second node's steps
\* delivered, and ran in the second pass.
C21_Witness ==
    /\ driver.mode = "idle"
    /\ ~panicked
    /\ Cardinality(DOMAIN nodes) = 2
    /\ Len(driver.calls) > 0
    /\ PassOf(driver.calls, Len(driver.calls)) = 2
    /\ \E i \in DOMAIN recvLog : TRUE
    /\ driver.steps = MaxSimSteps

----------------------------------------------------------------------------
(* C22: the latest add_node call, if its IP was in the node map, returned  *)
(* None and left the node map and the topology as they were, and otherwise *)
(* returned a handle and added the IP to both; and the IPs of the node map *)
(* are at all times the IPs registered in the topology.                    *)
C22_AddNode ==
    /\ DOMAIN nodes = network.topology.nodes
    /\ (topoLog /= <<>> /\ LastTopo.op = "add_node") =>
          \A ip \in LastTopo.group :
              IF ip \in DOMAIN LastTopo.nodes_before
              THEN /\ LastTopo.ret = None
                   /\ LastTopo.nodes_after = LastTopo.nodes_before
                   /\ LastTopo.after = LastTopo.before
              ELSE /\ LastTopo.ret /= None
                   /\ DOMAIN LastTopo.nodes_after = DOMAIN LastTopo.nodes_before \cup {ip}
                   /\ LastTopo.after.nodes = LastTopo.before.nodes \cup {ip}

\* add_node was called with the IP of a node that has a task and a time,
\* on a topology with a link cut.
C22_Witness ==
    /\ topoLog /= <<>>
    /\ LastTopo.op = "add_node"
    /\ \E ip \in LastTopo.group :
          /\ ip \in DOMAIN LastTopo.nodes_before
          /\ LastTopo.nodes_before[ip].tasks /= EmptyMap
          /\ \E o \in LastTopo.before.nodes : <<ip, o>> \notin LastTopo.before.links
    /\ LastTopo.ret = None

----------------------------------------------------------------------------
\* The positions of the queue q that hold the id of a task of the map.
PresentAt(q, tasks) == {k \in DOMAIN q : q[k] \in DOMAIN tasks}

\* q is what is left of q0 behind position k, with more ids pushed or not.
LeftBehind(q, q0, k) ==
    /\ Len(q) >= Len(q0) - k
    /\ \A j \in 1..(Len(q0) - k) : q[j] = q0[k + j]

\* The runtime's step of the history entry e polled the task at position
\* k of the queue and no other.
PolledOnly(e, k) ==
    /\ LeftBehind(e.run_after.task_queue, e.before.task_queue, k)
    /\ DOMAIN e.run_after.tasks \subseteq DOMAIN e.before.tasks
    /\ \A j \in DOMAIN e.before.tasks \ {e.before.task_queue[k]} :
          /\ j \in DOMAIN e.run_after.tasks
          /\ e.run_after.tasks[j] = e.before.tasks[j]
    /\ e.before.task_queue[k] \in DOMAIN e.run_after.tasks =>
          e.run_after.tasks[e.before.task_queue[k]].polls
              = e.before.tasks[e.before.task_queue[k]].polls + 1

\* The runtime's step of the history entry e polled nothing: the queue
\* was emptied and all else is as before.
PolledNothing(e) ==
    /\ e.run_after = [e.before EXCEPT !.task_queue = <<>>]
    /\ e.run_events = e.events

----------------------------------------------------------------------------
\* Task b of node `after` was polled since the node was `before`: it has
\* one more poll, or it completed and is gone.
PolledSince(before, after, b) ==
    \/ b \notin DOMAIN after.tasks
    \/ after.tasks[b].polls > before.tasks[b].polls

\* From `before` to `after` ids left the queue at its front only, each of
\* them the id of a task that was polled or of no task, and ids came in
\* at its back only.
FrontToBack(before, after) ==
    \E k \in 0..Len(before.task_queue) :
        /\ LeftBehind(after.task_queue, before.task_queue, k)
        /\ \A j \in 1..k :
              before.task_queue[j] \in DOMAIN before.tasks
                  => PolledSince(before, after, before.task_queue[j])

(* C24: in every step, the ids that leave a node's queue leave it at the   *)
(* front and the ids that enter it enter at the back, and a task that is   *)
(* polled is the one named by the first id of the queue that names a task: *)
(* of two tasks enqueued one after the other and not polled since, the     *)
(* one enqueued first is polled first.                                     *)
C24_FifoPolling ==
    [][~panicked' =>
          \A n \in DOMAIN nodes :
              /\ FrontToBack(nodes[n], nodes'[n])
              /\ \A b \in DOMAIN nodes[n].tasks :
                    PolledSince(nodes[n], nodes'[n], b) =>
                        b = nodes[n].task_queue[
                                Min(PresentAt(nodes[n].task_queue, nodes[n].tasks))]]_vars

\* Two tasks woken by their timers stood in the queue, and the step
\* polled the one in front and left the other at the head of the queue.
C24_Witness ==
    \E i \in DOMAIN stepLog :
        /\ Len(stepLog[i].before.task_queue) = 2
        /\ stepLog[i].before.task_queue[1] /= stepLog[i].before.task_queue[2]
        /\ \A k \in 1..2 :
              /\ stepLog[i].before.task_queue[k] \in DOMAIN stepLog[i].before.tasks
              /\ stepLog[i].before.tasks[stepLog[i].before.task_queue[k]].polls > 0
        /\ PolledSince(stepLog[i].before, stepLog[i].run_after,
                       stepLog[i].before.task_queue[1])
        /\ ~PolledSince(stepLog[i].before, stepLog[i].run_after,
                        stepLog[i].before.task_queue[2])
        /\ stepLog[i].run_after.task_queue[1] = stepLog[i].before.task_queue[2]

----------------------------------------------------------------------------
\* The id of the task the runtime's step of the history entry e polled.
PolledId(e) ==
    e.before.task_queue[Min(PresentAt(e.before.task_queue, e.before.tasks))]

(* C25: a task is never polled for an id that stood in the queue already   *)
(* when the task was polled last: the wakeups that came before a poll are  *)
(* all served by that poll.                                                *)
C25_WakeupsCoalesced ==
    \A i \in DOMAIN stepLog :
        stepLog[i].run_ret => stepLog[i].before.tasks[PolledId(stepLog[i])].queued = 0

----------------------------------------------------------------------------
(* C26: a bind that failed has left the free-port set of its node as it    *)
(* was: a port taken for a candidate whose registration met a conflict     *)
(* was released again.                                                     *)
C26_FailedBindReleasesPort ==
    (lastBind /= None /\ lastBind[1].addr = None)
        => lastBind[1].free_after = lastBind[1].free_before

----------------------------------------------------------------------------
(* C27: right after separate(G), on whatever topology it was called, no    *)
(* link has been added, and every link between two members of G and every  *)
(* link between two non-members of G is present exactly if it was present  *)
(* before the call.                                                        *)
C27_SeparateFrame ==
    (topoLog /= <<>> /\ LastTopo.op = "separate") =>
        /\ network.topology.links \subseteq LastTopo.before.links
        /\ network.topology.nodes = LastTopo.before.nodes
        /\ \A a, b \in TopoIPs :
              ((a \in LastTopo.group) = (b \in LastTopo.group))
                  => (<<a, b>> \in network.topology.links
                      <=> <<a, b>> \in LastTopo.before.links)

\* separate of two of three registered nodes has returned: it cut a link,
\* on a topology that had lost links before, and the two members are
\* still linked to each other.
C27_Witness ==
    /\ topoLog /= <<>>
    /\ LastTopo.op = "separate"
    /\ ~panicked
    /\ Cardinality(LastTopo.before.nodes) = MaxTopoIP
    /\ Cardinality(LastTopo.group) = 2
    /\ ~AllLinks(LastTopo.before)
    /\ network.topology.links /= LastTopo.before.links
    /\ \E a, b \in LastTopo.group : a /= b /\ <<a, b>> \in network.topology.links

----------------------------------------------------------------------------
(* C28: hops(from, to) is none if from or to is not registered, also when  *)
(* a repair with unregistered IPs has left a link between them; for        *)
(* registered nodes it is 0 if they are equal, 1 if the link from -> to    *)
(* exists, and none otherwise, also when links from -> x and x -> to       *)
(* exist.                                                                  *)
C28_HopsDirectOnly ==
    \A from, to \in TopoIPs :
        /\ (from \notin network.topology.nodes \/ to \notin network.topology.nodes)
              => Hops(network.topology, from, to) = None
        /\ (from \in network.topology.nodes /\ to \in network.topology.nodes) =>
              /\ from = to => Hops(network.topology, from, to) = Some(0)
              /\ (from /= to /\ <<from, to>> \in network.topology.links)
                    => Hops(network.topology, from, to) = Some(1)
              /\ (from /= to /\ <<from, to>> \notin network.topology.links)
                    => Hops(network.topology, from, to) = None

\* repair was called with an IP that is not registered and has linked it
\* to a registered node, in both directions and to itself.
C28_Witness ==
    /\ topoLog /= <<>>
    /\ LastTopo.op = "repair"
    /\ ~panicked
    /\ \E a \in LastTopo.group \ network.topology.nodes :
          \E b \in LastTopo.group \cap network.topology.nodes :
              /\ <<a, b>> \in network.topology.links
              /\ <<b, a>> \in network.topology.links
              /\ <<a, a>> \in network.topology.links
              /\ <<a, b>> \notin LastTopo.before.links

----------------------------------------------------------------------------
\* The timer entries of the heap h with a timestamp of at most `to`.
Due(h, to) == {h[i] : i \in {j \in DOMAIN h : h[j].timestamp <= to}}

\* The wakers woken between the node states `before` and `after`, in the
\* order of their wakeups.
Fired(before, after) ==
    SubSeq(after.task_queue, Len(before.task_queue) + 1, Len(after.task_queue))

\* The timestamp of the entry of heap h whose waker is the one of task id.
TimestampOf(h, id) == h[CHOOSE i \in DOMAIN h : h[i].waker[2] = id].timestamp

\* The call of history entry e fired the entries due at e.to, each once,
\* in the order of their timestamps, and kept the others.
FiredInOrder(e) ==
    /\ LeftBehind(e.after.task_queue, e.before.task_queue, 0)
    /\ Len(Fired(e.before, e.after)) = Cardinality(Due(e.before.heap, e.to))
    /\ {Fired(e.before, e.after)[i] : i \in DOMAIN Fired(e.before, e.after)}
          = {d.waker[2] : d \in Due(e.before.heap, e.to)}
    /\ \A i, j \in DOMAIN Fired(e.before, e.after) :
          i < j => TimestampOf(e.before.heap, Fired(e.before, e.after)[i])
                     <= TimestampOf(e.before.heap, Fired(e.before, e.after)[j])
    /\ {e.after.heap[i] : i \in DOMAIN e.after.heap}
          = {e.before.heap[i] : i \in DOMAIN e.before.heap} \ Due(e.before.heap, e.to)
    /\ Len(e.after.heap) = Len(e.before.heap) - Cardinality(Due(e.before.heap, e.to))

(* C29: the latest advance_to_time(target), if the driver's time was at    *)
(* most target, has fired every timer entry with a timestamp <= target,    *)
(* in non-decreasing order of the timestamps, has left the entries with a  *)
(* later timestamp in the heap and the time at target; and if the time     *)
(* was after target, it has panicked.                                      *)
C29_AdvanceToTime ==
    \A i \in DOMAIN stepLog :
        stepLog[i].op = "advance_to_time" =>
            IF stepLog[i].before.time <= stepLog[i].to
            THEN /\ ~stepLog[i].panicked
                 /\ stepLog[i].after.time = stepLog[i].to
                 /\ FiredInOrder(stepLog[i])
            ELSE stepLog[i].panicked

\* advance_to_time, on a driver whose time had advanced before, has fired
\* two timers with different timestamps, the second of them at the
\* target itself, and has kept a later one.
C29_Witness ==
    \E i \in DOMAIN stepLog :
        /\ stepLog[i].op = "advance_to_time"
        /\ ~stepLog[i].panicked
        /\ Len(stepLog[i].after.heap) = 1
        /\ Len(Fired(stepLog[i].before, stepLog[i].after)) = 2
        /\ TimestampOf(stepLog[i].before.heap,
                       Fired(stepLog[i].before, stepLog[i].after)[1])
              < TimestampOf(stepLog[i].before.heap,
                            Fired(stepLog[i].before, stepLog[i].after)[2])
        /\ TimestampOf(stepLog[i].before.heap,
                       Fired(stepLog[i].before, stepLog[i].after)[2]) = stepLog[i].to
        /\ stepLog[i].before.time > 0

----------------------------------------------------------------------------
(* NodeHandle::next_step: tasks before time.                               *)

\* The elements of the sequence q.
Items(q) == {q[i] : i \in DOMAIN q}

\* The step of history entry e left the node's clock, its timers and the
\* network's events as the polled task left them: nothing was fired or
\* delivered, the task may have added a timer or an event.
NotAdvanced(e) ==
    /\ e.after = e.run_after
    /\ e.events_after = e.run_events
    /\ e.after.time = e.before.time
    /\ Len(e.after.heap) >= Len(e.before.heap)
    /\ Items(e.before.heap) \subseteq Items(e.after.heap)
    /\ Len(e.events_after) >= Len(e.events)
    /\ Items(e.events) \subseteq Items(e.events_after)

\* The earlier of the next timer of the node and the next event of the
\* network at the step of history entry e (None: neither exists).
EarlierOf(e) ==
    MinOption(IF e.before.heap = <<>> THEN None
              ELSE Some(Min({t.timestamp : t \in Items(e.before.heap)})),
              IF e.events = <<>> THEN None
              ELSE Some(Min({v.timestamp : v \in Items(e.events)})))

\* The step of history entry e brought the network and the node's time
\* driver to the time `to`.
AdvancedTo(e, to) ==
    /\ ~e.panicked
    /\ e.after.time = to
    /\ Items(e.after.heap) = Items(e.before.heap) \ Due(e.before.heap, to)
    /\ Items(e.events_after) = Items(e.events) \ Due(e.events, to)

(* C30: in the latest watched next_step, if the runtime polled a task the  *)
(* step returned true and left clock, timers and network events where the  *)
(* task left them; otherwise, if the node had a timer or the network an    *)
(* event, the step advanced the network and the time driver to the earlier *)
(* of the two timestamps and returned true; and otherwise it returned      *)
(* false.                                                                  *)
C30_TasksBeforeTime ==
    \A i \in DOMAIN stepLog :
        stepLog[i].op = "next_step" =>
            IF stepLog[i].run_ret
            THEN stepLog[i].ret /\ NotAdvanced(stepLog[i])
            ELSE IF EarlierOf(stepLog[i]) /= None
            THEN stepLog[i].ret /\ AdvancedTo(stepLog[i], EarlierOf(stepLog[i])[1])
            ELSE /\ ~stepLog[i].ret
                 /\ PresentAt(stepLog[i].before.task_queue, stepLog[i].before.tasks) = {}

----------------------------------------------------------------------------
(* NetworkHandle::advance_to_time.                                         *)

\* The events of the queue q that are scheduled after `to`.
Later(q, to) == {v \in Items(q) : v.timestamp > to}

\* The call of history entry e handled the events a and b, a before b.
HandledBefore(e, a, b) == e.sent_after[a.uid].order < e.sent_after[b.uid].order

(* C31: the latest call of the network's advance_to_time(to) handled       *)
(* exactly the events of the queue with a timestamp <= to, an event with   *)
(* an earlier timestamp before one with a later, and left exactly the      *)
(* events with a later timestamp in the queue.                             *)
C31_NetAdvanceToTime ==
    \A i \in DOMAIN stepLog :
        stepLog[i].op = "net_advance_to_time" =>
            /\ Items(stepLog[i].events_after) = Later(stepLog[i].events, stepLog[i].to)
            /\ \A v \in Items(stepLog[i].events) :
                  /\ stepLog[i].sent_before[v.uid].fate = "none"
                  /\ stepLog[i].sent_after[v.uid].fate = "none" <=> v.timestamp > stepLog[i].to
            /\ \A a, b \in Due(stepLog[i].events, stepLog[i].to) :
                  a.timestamp < b.timestamp => HandledBefore(stepLog[i], a, b)

\* A call that handled two events of different timestamps, the later one
\* pushed first, and left none.
C31_Witness ==
    \E i \in DOMAIN stepLog :
        /\ stepLog[i].op = "net_advance_to_time"
        /\ stepLog[i].events_after = <<>>
        /\ \E a, b \in Items(stepLog[i].events) :
              a.timestamp < b.timestamp /\ a.uid > b.uid

----------------------------------------------------------------------------
(* Packets for an address without a live socket.                           *)

\* The send_to calls that reached the network with a packet for an address
\* no live socket was registered under.
SentToAbsent ==
    {i \in DOMAIN sendLog :
        /\ sendLog[i].sent_after = sendLog[i].sent_before + 1
        /\ ~sent[sendLog[i].sent_after].to_live}

\* The events the call of history entry e handled whose receiver had no
\* live socket.
DueToAbsent(e) == {v \in Due(e.events, e.to) : v.receiver \notin e.live}

(* C32: a send_to to an address without a live registered socket returns   *)
(* Ok with the packet reported dropped, no event scheduled and no RNG      *)
(* value taken; an event handled when its receiver's address has no live   *)
(* socket leaves the queue without a panic, and a call that handles only   *)
(* such events changes no socket and no node.                              *)
C32_NoLiveReceiver ==
    /\ \A i \in SentToAbsent :
          /\ sendLog[i].result = Some(Min({Len(sendLog[i].buf), sendLog[i].size}))
          /\ ~sendLog[i].panicked
          /\ sendLog[i].events_after = sendLog[i].events_before
          /\ sendLog[i].rng_after = sendLog[i].rng_before
          /\ sent[sendLog[i].sent_after].dropped
          /\ sent[sendLog[i].sent_after].timestamp = None
          /\ sent[sendLog[i].sent_after].fate = "none"
    /\ \A i \in DOMAIN stepLog :
          stepLog[i].op = "net_advance_to_time" =>
              /\ \A v \in DueToAbsent(stepLog[i]) :
                    /\ v \notin Items(stepLog[i].events_after)
                    /\ stepLog[i].sent_after[v.uid].fate = "dead"
                    /\ ~stepLog[i].panicked
              /\ DueToAbsent(stepLog[i]) = Due(stepLog[i].events, stepLog[i].to) =>
                    /\ stepLog[i].sockets_after = stepLog[i].sockets_before
                    /\ stepLog[i].nodes_after = stepLog[i].nodes_before

\* A packet was sent to an address nobody had bound, and an event whose
\* receiver was dropped after the send was handled while a task waited in
\* recv_from on another socket.
C32_Witness ==
    /\ SentToAbsent /= {}
    /\ \E i \in DOMAIN stepLog :
          /\ stepLog[i].op = "net_advance_to_time"
          /\ DueToAbsent(stepLog[i]) /= {}
          /\ \E id \in DOMAIN stepLog[i].sockets_before :
                stepLog[i].sockets_before[id].recv_waiters /= <<>>

----------------------------------------------------------------------------
(* Delivery wakes the tasks waiting in recv_from.                          *)

\* The sockets the call of history entry e delivered an event to.
DeliveredTo(e) ==
    {id \in DOMAIN e.sockets_before :
        \E v \in Due(e.events, e.to) :
            v.receiver \in e.live /\ v.receiver = e.sockets_before[id].local_addr}

\* The wakers the call of history entry e found waiting on socket id.
WaitingOn(e, id) == Items(e.sockets_before[id].recv_waiters)

\* The tasks that are pending in recv_from on the socket they bound.
InRecvFrom(n) ==
    {id \in DOMAIN nodes[n].tasks :
        /\ nodes[n].tasks[id].sock /= 0
        /\ nodes[n].tasks[id].pc \in DOMAIN Programs[nodes[n].tasks[id].prog]
        /\ Programs[nodes[n].tasks[id].prog][nodes[n].tasks[id].pc].op = "recv_from"}

(* C33: a call that delivered an event to a live socket left the socket    *)
(* without waiters and pushed the id of every task that waited on it onto  *)
(* its node's queue, whether the datagram was stored or not; and a task    *)
(* pending in recv_from is queued to be polled or has its waker among its  *)
(* socket's waiters.                                                       *)
C33_DeliveryWakes ==
    /\ \A i \in DOMAIN stepLog :
          stepLog[i].op = "net_advance_to_time" =>
              \A id \in DeliveredTo(stepLog[i]) :
                  /\ stepLog[i].sockets_after[id].recv_waiters = <<>>
                  /\ \A k \in WaitingOn(stepLog[i], id) :
                        Occurrences(stepLog[i].nodes_after[k[1]].task_queue, k[2])
                            > Occurrences(stepLog[i].nodes_before[k[1]].task_queue, k[2])
    /\ \A n \in DOMAIN nodes :
          \A id \in InRecvFrom(n) :
              \/ Occurrences(nodes[n].task_queue, id) > 0
              \/ <<n, id>> \in Items(sockets[nodes[n].tasks[id].sock].recv_waiters)

\* A task waiting in recv_from was woken by a datagram too large for its
\* socket's buffer, was polled again and waits once more.
C33_Witness ==
    /\ \E u \in DOMAIN sent : sent[u].fate = "overflow" /\ sent[u].awaited
    /\ \E n \in DOMAIN nodes :
          \E id \in InRecvFrom(n) :
              /\ nodes[n].tasks[id].polls >= 2
              /\ <<n, id>> \in Items(sockets[nodes[n].tasks[id].sock].recv_waiters)

----------------------------------------------------------------------------
(* UdpSocket::recv_from.                                                   *)

\* The history entry r of a completed recv_from took the oldest datagram
\* of the buffer and returned the bytes of it that fit into buf.
TookOldest(r) ==
    /\ r.queue /= <<>>
    /\ r.uid = Head(r.queue).uid
    /\ r.left = Tail(r.queue)
    /\ r.len = Min({Len(Head(r.queue).data), r.buflen})
    /\ r.bytes = SubSeq(Head(r.queue).data, 1, r.len)
    /\ r.from = Head(r.queue).from

(* C34: every recv_from that completed took the oldest datagram out of the *)
(* buffer and returned its first min(payload length, buf.len()) bytes with *)
(* their number and the sender's address; one socket returned datagrams in *)
(* the order of their delivery; and a task pending in recv_from that is    *)
(* not queued found the buffer empty and left its waker.                   *)
C34_RecvFrom ==
    /\ \A r \in DOMAIN recvLog : TookOldest(recvLog[r])
    /\ \A r, q \in DOMAIN recvLog :
          (r < q /\ recvLog[r].sock = recvLog[q].sock
                 /\ recvLog[r].serial = recvLog[q].serial)
          => sent[recvLog[r].uid].order < sent[recvLog[q].uid].order
    /\ \A n \in DOMAIN nodes :
          \A id \in InRecvFrom(n) :
              Occurrences(nodes[n].task_queue, id) = 0 =>
                  /\ sockets[nodes[n].tasks[id].sock].recv_buf.buf = <<>>
                  /\ <<n, id>> \in Items(sockets[nodes[n].tasks[id].sock].recv_waiters)

\* A socket whose buffer held two datagrams returned the first cut to the
\* length of buf and then the second.
C34_Witness ==
    \E r, q \in DOMAIN recvLog :
        /\ r < q
        /\ recvLog[r].serial = recvLog[q].serial
        /\ Len(recvLog[r].queue) = 2
        /\ Len(Head(recvLog[r].queue).data) > recvLog[r].buflen

----------------------------------------------------------------------------
(* The datagram Buffer.                                                    *)

\* The add_datagram call of history entry e was given a datagram that fits.
Fits(e) == Len(e.dgram.data) + e.before.len <= e.before.capacity

(* C36: the latest add_datagram returned true exactly if the payload's     *)
(* length plus the running total was within the capacity, then appended    *)
(* the datagram and added its length, and else left the buffer as it was;  *)
(* the latest take_datagram returned the oldest datagram and took its      *)
(* length off the total, or returned none on an empty buffer; and the      *)
(* running total is the sum of the lengths of the datagrams held.          *)
C36_BufferFifo ==
    /\ buffer.len = SumLen(buffer.buf)
    /\ \A i \in DOMAIN stepLog :
          /\ stepLog[i].op = "add_datagram" =>
                /\ stepLog[i].ret = Fits(stepLog[i])
                /\ stepLog[i].after =
                      IF Fits(stepLog[i])
                      THEN [stepLog[i].before EXCEPT
                               !.buf = Append(@, stepLog[i].dgram),
                               !.len = @ + Len(stepLog[i].dgram.data)]
                      ELSE stepLog[i].before
          /\ stepLog[i].op = "take_datagram" =>
                IF stepLog[i].before.buf = <<>>
                THEN stepLog[i].ret = None /\ stepLog[i].after = stepLog[i].before
                ELSE /\ stepLog[i].ret = Some(Head(stepLog[i].before.buf))
                     /\ stepLog[i].after =
                           [stepLog[i].before EXCEPT
                               !.buf = Tail(@),
                               !.len = @ - Len(Head(stepLog[i].before.buf).data)]

\* A full buffer gave out the older of its two different datagrams, which
\* made room again.
C36_Witness ==
    \E i \in DOMAIN stepLog :
        /\ stepLog[i].op = "take_datagram"
        /\ Len(stepLog[i].before.buf) = 2
        /\ stepLog[i].before.len = stepLog[i].before.capacity
        /\ stepLog[i].before.buf[1] /= stepLog[i].before.buf[2]
        /\ stepLog[i].after.len < stepLog[i].after.capacity

----------------------------------------------------------------------------
(* The context guard.                                                      *)

(* C35: outside every step no node is current, and every sim::now() call   *)
(* of a task found the node of that task current.                          *)
C35_CurrentNode ==
    /\ current = None
    /\ \A i \in DOMAIN ctxLog : ctxLog[i].current = Some(ctxLog[i].node)

----------------------------------------------------------------------------
(* The clocks of the nodes.                                                *)

(* C37: no step of any node puts a node's time back, and none fails the    *)
(* assertion `time <= to` of TimeDriver::advance_to_time, the one panic    *)
(* that tasks which sleep and send to live or absent sockets can meet.     *)
C37_TimeNeverBack ==
    [][/\ ~panicked'
       /\ \A n \in DOMAIN nodes : nodes'[n].time >= nodes[n].time]_vars

----------------------------------------------------------------------------
(* Delivery and the receiver's clock.                                      *)

(* C38: every datagram a recv_from returned was returned at a time of the  *)
(* receiving node that is not before the timestamp its delivery was        *)
(* scheduled for.                                                          *)
C38_NotBeforeItsTime ==
    \A r \in DOMAIN recvLog :
        recvLog[r].time >= sent[recvLog[r].uid].timestamp[1]

----------------------------------------------------------------------------
(* Pending tasks wait for their wakers.                                    *)

\* The runtime's step of history entry e polled a task that stayed pending.
PolledPending(e) == e.run_ret /\ PolledId(e) \in DOMAIN e.run_after.tasks

(* C39: the runtime's part of the latest watched next_step, having polled  *)
(* a task that stayed pending, took the task's id off the queue and did    *)
(* not put it back; and on a node that has tasks, all pending and none     *)
(* with its id in the queue, has_work() is false and Runtime::next_step    *)
(* returns false.                                                          *)
C39_PendingNotPolled ==
    /\ \A i \in DOMAIN stepLog :
          PolledPending(stepLog[i]) =>
              Occurrences(stepLog[i].run_after.task_queue, PolledId(stepLog[i]))
                  = Occurrences(stepLog[i].before.task_queue, PolledId(stepLog[i])) - 1
    /\ \A n \in DOMAIN nodes :
          (DOMAIN nodes[n].tasks /= {}
              /\ PresentAt(nodes[n].task_queue, nodes[n].tasks) = {}) =>
              /\ ~HasWork(nodes[n])
              /\ ~RuntimeNextStep(World, n, <<>>).ret

----------------------------------------------------------------------------
(* Reachability is decided at the send.                                    *)

\* The datagram of the send u is held by a buffer or was returned by a
\* recv_from.
Arrived(u) ==
    \/ \E id \in DOMAIN sockets :
          \E k \in DOMAIN sockets[id].recv_buf.buf : sockets[id].recv_buf.buf[k].uid = u
    \/ \E r \in DOMAIN recvLog : recvLog[r].uid = u

(* C40: an event that was handled while its receiver's address had a live  *)
(* socket was given to that socket's buffer, whether or not the topology   *)
(* still had the link from the sender then; and a packet dropped at the    *)
(* send for want of a route is in no event, was never handled and has      *)
(* arrived nowhere, whatever was repaired later.                           *)
C40_DecidedAtSend ==
    \A u \in DOMAIN sent :
        /\ (sent[u].fate /= "none" /\ sent[u].live_at) =>
              /\ sent[u].cause = "scheduled"
              /\ sent[u].fate \in {"buffered", "overflow"}
        /\ sent[u].cause = "hops" =>
              /\ sent[u].fate = "none"
              /\ \A i \in DOMAIN network.events : network.events[i].uid /= u
              /\ ~Arrived(u)

\* A datagram was returned by recv_from although the link from its sender
\* was cut between the send and the delivery, and a packet dropped for
\* want of a route stayed lost after the route was repaired.
C40_Witness ==
    /\ \E u \in DOMAIN sent :
          /\ sent[u].cut_at
          /\ sent[u].from[1] /= sent[u].to[1]
          /\ \E r \in DOMAIN recvLog : recvLog[r].uid = u
    /\ \E u \in DOMAIN sent :
          /\ sent[u].cause = "hops"
          /\ Hops(network.topology, sent[u].from[1], sent[u].to[1]) /= None

====
